---------------------------- MODULE Spec2Model ----------------------------
(***************************************************************************)
(* A model of the Ollama client of jupyterlab_ai_assistant                 *)
(* (ollama_client.py) and of the chat handler that calls it (handlers.py). *)
(*                                                                         *)
(* One OllamaClient instance is shared by the callers in Threads.  Every   *)
(* outbound HTTP request is a pair of steps: the step that sends it and    *)
(* the step that receives the server's answer, which the environment       *)
(* chooses.  Other callers may run between the two.                        *)
(***************************************************************************)
EXTENDS Integers, Sequences, FiniteSets, TLC

(***************************************************************************)
(* Bounds of the model.                                                    *)
(***************************************************************************)
NumThreads == 2
NumFirstCallers == 3
MaxLines == 2
TickLen == 150
MaxTime == 300
MaxText == 8
MaxChunkSize == 7
MaxMessages == 4
MaxWords == 2

\* The threads that share the client: NumThreads of them make calls one
\* after another, NumFirstCallers of them make one first call each.
Callers == 1..NumThreads
FirstCallers == 1..NumFirstCallers
Threads == Callers \cup FirstCallers
\* The thread that runs the handlers.
EventLoop == 1

(***************************************************************************)
(* Program constants.                                                      *)
(***************************************************************************)
DEFAULT_TIMEOUT == 120
DEFAULT_LONG_TIMEOUT == 300
CELL_CONTEXT_TIMEOUT == 180
max_retries == 3
initial_retry_delay == 1
CACHE_TTL == 300

(***************************************************************************)
(* JSON values as the client sees them.  A scalar field is a record        *)
(* [t, v]: a string, null, or absent from its object.                      *)
(***************************************************************************)
Str(s) == [t |-> "str", v |-> s]
Null == [t |-> "null", v |-> ""]
Absent == [t |-> "absent", v |-> ""]

\* kind: "obj" a JSON object, "nondict" any other JSON value, "bad" text that
\* is not JSON, "empty" an empty line, "none" Python's None.
\* truthy: the value's truth in Python; msg: the type of its "message" member
\* ("absent", "null", "str", "dict"); mtruthy: the truth of that member;
\* content: message.content; response: the "response" member; done: the
\* truth of chunk.get("done", False).
JV(kind, truthy, msg, mtruthy, content, response, done) ==
    [kind |-> kind, truthy |-> truthy, msg |-> msg, mtruthy |-> mtruthy,
     content |-> content, response |-> response, done |-> done]

NoneVal == JV("none", FALSE, "absent", FALSE, Absent, Absent, FALSE)
EmptyLine == JV("empty", FALSE, "absent", FALSE, Absent, Absent, FALSE)
BadLine == JV("bad", TRUE, "absent", FALSE, Absent, Absent, FALSE)
NonDict(truthy) == JV("nondict", truthy, "absent", FALSE, Absent, Absent, FALSE)
ChatObj(content, done) == JV("obj", TRUE, "dict", TRUE, content, Absent, done)
GenObj(response, done) == JV("obj", TRUE, "absent", FALSE, Absent, response, done)

\* {"message": {"content": c}} and {"message": {"content": c}, "done": d},
\* the dictionaries the client builds itself.
Normalized(c, d) == JV("obj", TRUE, "dict", TRUE, c, Absent, d)

\* str(x) of a value that is not a string: its Python repr.
ReprText == "<repr>"
\* str(x) of the string member "message".
MessageText == "m"

ChatTimeoutNotice ==
    "[The model took too long to respond. Please try again with a shorter query or try the 'Analyze cell' function for complex code.]"
GenerateTimeoutNotice ==
    "[The model took too long to respond. Please try again with a shorter query or try breaking your request into smaller parts.]"

(***************************************************************************)
(* What the server may answer.                                             *)
(***************************************************************************)
\* A body of POST /api/chat with stream false.
ChatBodies ==
    { ChatObj(Str("a"), TRUE), ChatObj(Str(""), TRUE), ChatObj(Null, TRUE),
      JV("obj", TRUE, "dict", TRUE, Absent, Absent, TRUE),
      JV("obj", TRUE, "dict", FALSE, Absent, Absent, TRUE),
      JV("obj", TRUE, "null", FALSE, Absent, Absent, TRUE),
      JV("obj", TRUE, "str", TRUE, Absent, Absent, TRUE),
      JV("obj", TRUE, "absent", FALSE, Absent, Absent, TRUE),
      JV("obj", FALSE, "absent", FALSE, Absent, Absent, FALSE),
      NonDict(TRUE), NonDict(FALSE), BadLine }

\* A body of POST /api/generate with stream false.
GenBodies ==
    { GenObj(Str("a"), TRUE), GenObj(Null, TRUE), GenObj(Absent, TRUE),
      NonDict(TRUE), BadLine }

\* A line of the streamed answer of POST /api/chat.
ChatLines ==
    { EmptyLine, BadLine, NonDict(TRUE),
      ChatObj(Str("a"), FALSE), ChatObj(Str("b"), TRUE), ChatObj(Null, FALSE),
      JV("obj", TRUE, "absent", FALSE, Absent, Absent, TRUE) }

\* A line of the streamed answer of POST /api/generate.
GenLines ==
    { EmptyLine, BadLine, NonDict(TRUE),
      GenObj(Str("a"), FALSE), GenObj(Str("b"), TRUE), GenObj(Null, FALSE),
      GenObj(Absent, TRUE) }

\* The status of an HTTP answer, or the way the request failed.
HeadOutcomes == {"200", "404", "405", "500", "neterr"}
PostOutcomes == {"200", "404", "500", "timeout", "neterr"}
GetOutcomes == {"200", "500", "timeout", "neterr"}

\* A body of GET /api/tags: a snapshot with models, the empty object, JSON
\* that is no object, text that is not JSON.
TagsBodies == {"tagsA", "tagsB", "{}", "nondict", "bad"}

\* A snapshot of /api/tags.
Snapshots == {"tagsA", "tagsB"}
NoCache == "{}"

\* The conversations a caller passes: role and content of each message.
Msg(role, content) == [role |-> role, content |-> content]
MessageLists ==
    { <<Msg("assistant", " ")>>,
      <<Msg("user", "q"), Msg("assistant", ""), Msg("user", "")>> }

VARIABLES
    supports_chat_api,    \* self._supports_chat_api: "None", "True", "False"
    check_cache,          \* lru_cache entry of _check_chat_api_support(self)
    connection_verified,  \* self._connection_verified
    lock,                 \* owner of self._lock, 0 when free
    models_cache,         \* self._models_cache
    models_cache_time,    \* self._models_cache_time
    now,                  \* time.time()
    chat404,              \* history: a POST /api/chat has returned 404
    fetched_at,           \* history: when /api/tags last gave a snapshot, -1 if never
    pc,                   \* where each caller is
    call,                 \* the call each caller is in
    loc,                  \* the local variables of that call
    out,                  \* what the call has given its caller so far
    reqs,                 \* the requests the call has sent
    http,                 \* the response of the handler that made the call
    pg,                   \* one evaluation of paginate_response
    fmt,                  \* one evaluation of _format_generate_payload
    ext,                  \* one run of _load_jupyter_server_extension
    tsel                  \* one choice of the upstream timeout

client == <<supports_chat_api, check_cache, connection_verified, lock,
            models_cache, models_cache_time>>
vars == <<supports_chat_api, check_cache, connection_verified, lock,
          models_cache, models_cache_time, now, chat404, fetched_at, pc, call,
          loc, out, reqs, http, pg, fmt, ext, tsel>>
\* The variables of the evaluations of the pure functions and of the load
\* of the extension.
pure == <<pg, fmt, ext, tsel>>

\* request: the body of the request the chat handler is answering; runs_on:
\* the thread the call's requests are sent from, "event_loop" when the
\* handler makes the call itself, "executor" when it hands the call to
\* run_in_executor, "caller" without a handler.
NoCall == [op |-> "none", stream |-> FALSE, via |-> "none",
           messages |-> <<>>, after404 |-> FALSE, request |-> <<>>,
           runs_on |-> "none"]
NoLoc == [supported |-> "unset", probe_failed |-> FALSE,
          probe_status |-> "none", current_time |-> 0,
          attempt |-> 0, retry_delay |-> 0, wake_at |-> 0]
\* line: the last line read from the stream; chunk: the last chunk yielded;
\* nLines: lines read from the current stream; nObj: lines read in this call
\* that hold a JSON object; nYield: chunks yielded in this call; doneSeen: a
\* chunk with done true has been yielded; afterDone: chunks yielded after it;
\* nondict: a line held JSON that is no object; ret: "running", "return" or
\* "raise"; val: the value returned; exc: the exception raised;
\* verify_answer: the answer to GET /api/tags of the verification;
\* chat_answer, gen_answer: the answers to this call's POSTs; upstream:
\* the content of the body the server answered; endpoints: the endpoints
\* whose output has reached the caller; sleeps: the arguments of time.sleep;
\* result: what process_request of the cell-context handler returned, an
\* "error" dictionary or a "message" dictionary.
NoOut == [line |-> NoneVal, chunk |-> NoneVal, nLines |-> 0, nObj |-> 0,
          nYield |-> 0, doneSeen |-> FALSE, afterDone |-> 0,
          nondict |-> FALSE, ret |-> "running", val |-> NoneVal,
          exc |-> "none", verify_answer |-> "none",
          chat_answer |-> "none", gen_answer |-> "none",
          upstream |-> Absent, endpoints |-> {},
          models |-> "none", sleeps |-> <<>>, result |-> "none"]
\* The requests sent, by endpoint, and the messages of the last POST: those
\* of the payload of /api/chat, those the prompt of /api/generate is made of.
NoReqs == [head |-> 0, chat |-> 0, gen |-> 0, tags |-> 0, version |-> 0,
           embeddings |-> 0, messages |-> <<>>]
\* The HTTP response a handler has written: status 0 while none is set;
\* finished: the calls of self.finish; escaped: an exception has left the
\* handler.
NoHttp == [status |-> 0, content |-> Absent, final_content |-> "",
          finished |-> 0, escaped |-> FALSE]
\* No evaluation of paginate_response, of _format_generate_payload, going on.
NoPg == [at |-> "none"]
NoFmt == [at |-> "none"]
\* No load of the extension, no choice of a timeout, going on.
NoExt == [at |-> "none"]
NoTsel == [at |-> "none"]

(***************************************************************************)
(* The state after OllamaClient.__init__, which ends with one call of      *)
(* _verify_connection: verified with the models cached, verified with      *)
(* nothing cached, or not verified.                                        *)
(***************************************************************************)
Constructed ==
    /\ supports_chat_api = "None"
    /\ check_cache = "miss"
    /\ connection_verified \in BOOLEAN
    /\ lock = 0
    /\ models_cache \in (IF connection_verified THEN Snapshots ELSE {}) \cup {NoCache}
    /\ models_cache_time = 0
    /\ now = 0
    /\ chat404 = FALSE
    /\ fetched_at = (IF models_cache \in Snapshots THEN 0 ELSE -1)
    /\ pc = [t \in Threads |-> "idle"]
    /\ call = [t \in Threads |-> NoCall]
    /\ loc = [t \in Threads |-> NoLoc]
    /\ out = [t \in Threads |-> NoOut]
    /\ reqs = [t \in Threads |-> NoReqs]
    /\ http = [t \in Threads |-> NoHttp]

Init == Constructed /\ pg = NoPg /\ fmt = NoFmt /\ ext = NoExt /\ tsel = NoTsel

(***************************************************************************)
(* Helpers of chat_completion.                                             *)
(***************************************************************************)
\* content.strip() on the contents of MessageLists.
Strip(content) == IF content \in {"", " "} THEN "" ELSE content

\* The filter of chat_completion, and of the chat handler: a message is
\* dropped when its content is empty and its role is assistant.
FilteredMessages(messages) ==
    SelectSeq(messages,
              LAMBDA msg : Strip(msg.content) # "" \/ msg.role # "assistant")

\* chat_completion is a generator function: its body holds yield statements,
\* so a call hands the caller a generator object whatever stream is, and the
\* operand of a return statement is only the value of its StopIteration.
ContainsYield == TRUE

\* What the call expression chat_completion(...) evaluates to, once the body
\* has run to its return statement with value val.
HandedToCaller(val) ==
    IF ContainsYield
    THEN [kind |-> "generator", value |-> NoneVal]
    ELSE [kind |-> "dict", value |-> val]

\* The defensive checks on a body of /api/chat with stream false.
NormalizeChatBody(result) ==
    IF result.kind # "obj" \/ result.msg = "absent"
    THEN Normalized(Str(IF result.truthy THEN ReprText ELSE ""), FALSE)
    ELSE IF result.msg # "dict" \/ result.content = Absent
    THEN Normalized(Str(IF ~result.mtruthy THEN ""
                        ELSE IF result.msg = "str" THEN MessageText
                        ELSE ReprText), result.done)
    ELSE result

\* The conversion of a body of /api/generate with stream false.
NormalizeGenerateBody(result) ==
    Normalized(IF result.response \in {Absent, Null} THEN Str("")
               ELSE result.response, FALSE)

\* The chunk yielded for a line of the stream of /api/chat: the line as it is.
ChatChunk(chunk) == chunk

\* The chunk yielded for a line of the stream of /api/generate.
GenerateChunk(chunk) ==
    Normalized(IF chunk.response = Absent THEN Str("") ELSE chunk.response,
               chunk.done)

\* The content of the upstream answer: message.content of a chat body, the
\* response member of a generate body.
ChatBodyContent(body) == IF body.msg = "dict" THEN body.content ELSE Absent
GenerateBodyContent(body) == body.response

\* The bookkeeping of one line read from a stream.
LineRead(o, line) ==
    [o EXCEPT !.line = line, !.nLines = @ + 1,
              !.nObj = IF line.kind = "obj" THEN @ + 1 ELSE @,
              !.nondict = @ \/ line.kind = "nondict"]

\* The bookkeeping of one chunk yielded to the caller.
Yielded(o, chunk, endpoint) ==
    [o EXCEPT !.chunk = chunk, !.nYield = @ + 1,
              !.afterDone = IF o.doneSeen THEN @ + 1 ELSE @,
              !.doneSeen = @ \/ chunk.done,
              !.endpoints = @ \cup {endpoint}]

Returned(o, val) == [o EXCEPT !.ret = "return", !.val = val]
Raised(o, exc) == [o EXCEPT !.ret = "raise", !.exc = exc]
\* The caller has stopped iterating: the generator is closed where it stands.
Closed(o) == [o EXCEPT !.ret = "closed"]

\* The chat handler's loop over the chunks, with stream true: it writes the
\* chunk, then reads chunk.get("done", False) and leaves the loop when true.
HandlerStreams(t) == call[t].via = "handler" /\ call[t].stream

\* What the loop "for chunk in result" of the non-streaming branch adds to
\* final_content for one chunk.
ConsumedContent(chunk) ==
    IF chunk.kind = "obj" /\ chunk.msg = "dict" /\ chunk.content.t = "str"
    THEN chunk.content.v ELSE ""

\* The handler's part in a chunk the generator yields.
HandlerConsumes(t, chunk) ==
    IF call[t].via = "handler" /\ ~call[t].stream
    THEN [http EXCEPT ![t].final_content = @ \o ConsumedContent(chunk)]
    ELSE http

(***************************************************************************)
(* chat_completion(model, messages, stream).                               *)
(***************************************************************************)
CallChatCompletion(t, stream, messages) ==
    /\ pc[t] = "idle"
    /\ pc' = [pc EXCEPT ![t] = "cc_verify"]
    /\ call' = [call EXCEPT ![t] = [op |-> "chat_completion", stream |-> stream,
                                    via |-> "direct", messages |-> messages,
                                    after404 |-> chat404, request |-> <<>>,
                                    runs_on |-> "caller"]]
    /\ UNCHANGED <<client, now, chat404, fetched_at, pure, loc, out, reqs, http>>

\* A verification that takes no lock.
LockIgnored(t) == TRUE

\* "with self._lock": the reentrant lock is free or held by the thread.
LockAcquirable(t) == lock \in {0, t}

\* _verify_connection, from its entry to its first request.
VerifyEnter(t) ==
    /\ pc[t] = "cc_verify"
    /\ LockAcquirable(t)
    /\ IF connection_verified
       THEN /\ pc' = [pc EXCEPT ![t] = "cc_check"]
            /\ UNCHANGED <<lock, reqs>>
       ELSE /\ lock' = t
            /\ pc' = [pc EXCEPT ![t] = "vc_version"]
            /\ reqs' = [reqs EXCEPT ![t].version = @ + 1]
    /\ UNCHANGED <<supports_chat_api, check_cache, connection_verified,
                   models_cache, models_cache_time, now, chat404, fetched_at, pure, call, loc,
                   out, http>>

\* The answer of GET /api/version, whatever it is, and GET /api/tags sent.
VerifyVersion(t) ==
    /\ pc[t] = "vc_version"
    /\ pc' = [pc EXCEPT ![t] = "vc_tags"]
    /\ reqs' = [reqs EXCEPT ![t].tags = @ + 1]
    /\ UNCHANGED <<client, now, chat404, fetched_at, pure, call, loc, out, http>>

\* The answer of GET /api/tags: body is a snapshot with models, or "other"
\* for JSON without models and for text that is not JSON.
VerifyTags(t, outcome, body) ==
    /\ pc[t] = "vc_tags"
    /\ lock' = 0
    /\ IF outcome = "200"
       THEN /\ connection_verified' = TRUE
            /\ models_cache' = IF body \in Snapshots THEN body ELSE models_cache
            /\ models_cache_time' =
                   IF body \in Snapshots THEN now ELSE models_cache_time
            /\ fetched_at' = IF body \in Snapshots THEN now ELSE fetched_at
            /\ pc' = [pc EXCEPT ![t] = "cc_check"]
            /\ out' = [out EXCEPT ![t].verify_answer = outcome]
       ELSE /\ pc' = [pc EXCEPT ![t] = "done"]
            /\ out' = [out EXCEPT ![t] =
                          [Raised(@, "RequestException") EXCEPT
                              !.verify_answer = outcome]]
            /\ UNCHANGED <<connection_verified, models_cache,
                           models_cache_time, fetched_at>>
    /\ UNCHANGED <<supports_chat_api, check_cache, now, chat404, pure, call, loc,
                   reqs, http>>

\* The branch on the result of _check_chat_api_support: POST /api/chat is
\* sent when it is true.
Decide(t, supported) ==
    /\ loc' = [loc EXCEPT ![t].supported = supported]
    /\ IF supported = "True"
       THEN /\ pc' = [pc EXCEPT ![t] = "cc_chat"]
            /\ reqs' = [reqs EXCEPT ![t].chat = @ + 1,
                                    ![t].messages =
                                        FilteredMessages(call[t].messages)]
       ELSE /\ pc' = [pc EXCEPT ![t] = "cc_fallback"]
            /\ reqs' = reqs

\* What lru_cache keeps when the wrapped function returns: the entry a
\* concurrent call stored meanwhile is not overwritten.
Memoized(result) == IF check_cache = "miss" THEN result ELSE check_cache

\* The filter of the messages, then _check_chat_api_support up to its HEAD.
CheckSupport(t) ==
    /\ pc[t] = "cc_check"
    /\ IF FilteredMessages(call[t].messages) = <<>>
       THEN /\ pc' = [pc EXCEPT ![t] = "done"]
            /\ out' = [out EXCEPT ![t] = Returned(@, Normalized(Str(""), FALSE))]
            /\ UNCHANGED <<check_cache, loc, reqs>>
       ELSE IF check_cache # "miss"
       THEN /\ Decide(t, check_cache)
            /\ UNCHANGED <<check_cache, out>>
       ELSE IF supports_chat_api # "None"
       THEN /\ check_cache' = Memoized(supports_chat_api)
            /\ Decide(t, supports_chat_api)
            /\ out' = out
       ELSE /\ pc' = [pc EXCEPT ![t] = "cc_probe"]
            /\ reqs' = [reqs EXCEPT ![t].head = @ + 1]
            /\ UNCHANGED <<check_cache, loc, out>>
    /\ UNCHANGED <<supports_chat_api, connection_verified, lock, models_cache,
                   models_cache_time, now, chat404, fetched_at, pure, call, http>>

\* A probe that takes every error status for an unsupported endpoint.
ProbeRecordsOnlySuccess(outcome) ==
    IF outcome \in {"200", "405"} THEN "True" ELSE "False"

\* What the probe records for the answer of HEAD /api/chat.
ProbeRecords(outcome) ==
    IF outcome = "neterr" THEN "False"
    ELSE IF outcome # "404" THEN "True" ELSE "False"

ProbeAnswer(t, outcome) ==
    /\ pc[t] = "cc_probe"
    /\ supports_chat_api' = ProbeRecords(outcome)
    /\ loc' = [loc EXCEPT ![t].probe_failed = (outcome = "neterr"),
                          ![t].probe_status = outcome]
    /\ pc' = [pc EXCEPT ![t] = "cc_probe_ret"]
    /\ UNCHANGED <<check_cache, connection_verified, lock, models_cache,
                   models_cache_time, now, chat404, fetched_at, pure, call, out, reqs, http>>

\* The return of the probe: the flag as it is now, or False after an error.
ProbeReturn(t) ==
    /\ pc[t] = "cc_probe_ret"
    /\ LET result == IF loc[t].probe_failed THEN "False" ELSE supports_chat_api
       IN /\ check_cache' = Memoized(result)
          /\ Decide(t, result)
    /\ UNCHANGED <<supports_chat_api, connection_verified, lock, models_cache,
                   models_cache_time, now, chat404, fetched_at, pure, call, out, http>>

\* The bookkeeping of the answer to POST /api/chat.
ChatAnswered(o, outcome) == [o EXCEPT !.chat_answer = outcome]

\* The answer of POST /api/chat.
ChatAnswer(t, outcome, body) ==
    /\ pc[t] = "cc_chat"
    /\ supports_chat_api' = IF outcome = "404" THEN "False" ELSE supports_chat_api
    /\ chat404' = (chat404 \/ outcome = "404")
    /\ UNCHANGED <<fetched_at, pure>>
    /\ CASE outcome = "200" /\ call[t].stream ->
              /\ pc' = [pc EXCEPT ![t] = "cc_chat_stream"]
              /\ out' = [out EXCEPT ![t] = [ChatAnswered(@, outcome) EXCEPT !.nLines = 0]]
         [] outcome = "200" /\ ~call[t].stream /\ body.kind = "bad" ->
              /\ pc' = [pc EXCEPT ![t] = "done"]
              /\ out' = [out EXCEPT ![t] = Raised(ChatAnswered(@, outcome), "JSONDecodeError")]
         [] outcome = "200" /\ ~call[t].stream /\ body.kind # "bad" ->
              /\ pc' = [pc EXCEPT ![t] = "done"]
              /\ out' = [out EXCEPT ![t] =
                            [Returned(ChatAnswered(@, outcome), NormalizeChatBody(body)) EXCEPT
                                !.upstream = ChatBodyContent(body),
                                !.endpoints = @ \cup {"chat"}]]
         [] outcome = "404" ->
              /\ pc' = [pc EXCEPT ![t] = "cc_fallback"]
              /\ out' = [out EXCEPT ![t] = ChatAnswered(@, outcome)]
         [] outcome = "500" ->
              /\ pc' = [pc EXCEPT ![t] = "done"]
              /\ out' = [out EXCEPT ![t] = Raised(ChatAnswered(@, outcome), "HTTPError")]
         [] outcome = "timeout" ->
              /\ pc' = [pc EXCEPT ![t] = "done"]
              /\ out' = [out EXCEPT ![t] =
                            Returned(ChatAnswered(@, outcome), Normalized(Str(ChatTimeoutNotice), FALSE))]
         [] outcome = "neterr" ->
              /\ pc' = [pc EXCEPT ![t] = "done"]
              /\ out' = [out EXCEPT ![t] = Raised(ChatAnswered(@, outcome), "ConnectionError")]
    /\ UNCHANGED <<check_cache, connection_verified, lock, models_cache,
                   models_cache_time, now, call, loc, reqs, http>>

\* One line of the stream of /api/chat.
ChatStreamLine(t, line) ==
    /\ pc[t] = "cc_chat_stream"
    /\ out[t].nLines < MaxLines
    /\ LET read == LineRead(out[t], line)
           given == Yielded(read, ChatChunk(line), "chat")
       IN CASE line.kind \in {"empty", "bad"} ->
                 /\ out' = [out EXCEPT ![t] = read]
                 /\ pc' = pc
            [] line.kind = "nondict" ->
                 /\ out' = [out EXCEPT ![t] = Raised(given, "AttributeError")]
                 /\ pc' = [pc EXCEPT ![t] = "done"]
            [] line.kind = "obj" /\ line.done /\ HandlerStreams(t) ->
                 /\ out' = [out EXCEPT ![t] = Closed(given)]
                 /\ pc' = [pc EXCEPT ![t] = "done"]
            [] line.kind = "obj" /\ line.done /\ ~HandlerStreams(t) ->
                 /\ out' = [out EXCEPT ![t] = given]
                 /\ pc' = [pc EXCEPT ![t] = "cc_fallback"]
            [] line.kind = "obj" /\ ~line.done ->
                 /\ out' = [out EXCEPT ![t] = given]
                 /\ pc' = pc
    /\ http' = IF line.kind \in {"obj", "nondict"}
               THEN HandlerConsumes(t, ChatChunk(line)) ELSE http
    /\ UNCHANGED <<client, now, chat404, fetched_at, pure, call, loc, reqs>>

\* The stream of /api/chat ends.
ChatStreamEnd(t) ==
    /\ pc[t] = "cc_chat_stream"
    /\ pc' = [pc EXCEPT ![t] = "cc_fallback"]
    /\ UNCHANGED <<client, now, chat404, fetched_at, pure, call, loc, out, reqs, http>>

\* The connection breaks while the stream of /api/chat is read.
ChatStreamAbort(t) ==
    /\ pc[t] = "cc_chat_stream"
    /\ pc' = [pc EXCEPT ![t] = "done"]
    /\ out' = [out EXCEPT ![t] = Raised(@, "ConnectionError")]
    /\ UNCHANGED <<client, now, chat404, fetched_at, pure, call, loc, reqs, http>>

\* "if not self._supports_chat_api": POST /api/generate is sent, or the body
\* of chat_completion ends.
Fallback(t) ==
    /\ pc[t] = "cc_fallback"
    /\ IF supports_chat_api # "True"
       THEN /\ pc' = [pc EXCEPT ![t] = "cc_gen"]
            /\ reqs' = [reqs EXCEPT ![t].gen = @ + 1,
                                    ![t].messages =
                                        FilteredMessages(call[t].messages)]
            /\ out' = out
       ELSE /\ pc' = [pc EXCEPT ![t] = "done"]
            /\ out' = [out EXCEPT ![t] = Returned(@, NoneVal)]
            /\ reqs' = reqs
    /\ UNCHANGED <<client, now, chat404, fetched_at, pure, call, loc, http>>

\* The bookkeeping of the answer to POST /api/generate.
GenAnswered(o, outcome) == [o EXCEPT !.gen_answer = outcome]

\* The answer of POST /api/generate.
GenAnswer(t, outcome, body) ==
    /\ pc[t] = "cc_gen"
    /\ CASE outcome = "200" /\ call[t].stream ->
              /\ pc' = [pc EXCEPT ![t] = "cc_gen_stream"]
              /\ out' = [out EXCEPT ![t] = [GenAnswered(@, outcome) EXCEPT !.nLines = 0]]
         [] outcome = "200" /\ ~call[t].stream /\ body.kind = "bad" ->
              /\ pc' = [pc EXCEPT ![t] = "done"]
              /\ out' = [out EXCEPT ![t] = Raised(GenAnswered(@, outcome), "JSONDecodeError")]
         [] outcome = "200" /\ ~call[t].stream /\ body.kind = "nondict" ->
              /\ pc' = [pc EXCEPT ![t] = "done"]
              /\ out' = [out EXCEPT ![t] = Raised(GenAnswered(@, outcome), "AttributeError")]
         [] outcome = "200" /\ ~call[t].stream /\ body.kind = "obj" ->
              /\ pc' = [pc EXCEPT ![t] = "done"]
              /\ out' = [out EXCEPT ![t] =
                            [Returned(GenAnswered(@, outcome), NormalizeGenerateBody(body)) EXCEPT
                                !.upstream = GenerateBodyContent(body),
                                !.endpoints = @ \cup {"generate"}]]
         [] outcome \in {"404", "500"} ->
              /\ pc' = [pc EXCEPT ![t] = "done"]
              /\ out' = [out EXCEPT ![t] = Raised(GenAnswered(@, outcome), "HTTPError")]
         [] outcome = "timeout" ->
              /\ pc' = [pc EXCEPT ![t] = "done"]
              /\ out' = [out EXCEPT ![t] =
                            Returned(GenAnswered(@, outcome), Normalized(Str(GenerateTimeoutNotice), FALSE))]
         [] outcome = "neterr" ->
              /\ pc' = [pc EXCEPT ![t] = "done"]
              /\ out' = [out EXCEPT ![t] = Raised(GenAnswered(@, outcome), "ConnectionError")]
    /\ UNCHANGED <<client, now, chat404, fetched_at, pure, call, loc, reqs, http>>

\* One line of the stream of /api/generate.
GenStreamLine(t, line) ==
    /\ pc[t] = "cc_gen_stream"
    /\ out[t].nLines < MaxLines
    /\ LET read == LineRead(out[t], line)
           given == Yielded(read, GenerateChunk(line), "generate")
       IN CASE line.kind \in {"empty", "bad"} ->
                 /\ out' = [out EXCEPT ![t] = read]
                 /\ pc' = pc
            [] line.kind = "nondict" ->
                 /\ out' = [out EXCEPT ![t] = Raised(read, "AttributeError")]
                 /\ pc' = [pc EXCEPT ![t] = "done"]
            [] line.kind = "obj" /\ line.done /\ HandlerStreams(t) ->
                 /\ out' = [out EXCEPT ![t] = Closed(given)]
                 /\ pc' = [pc EXCEPT ![t] = "done"]
            [] line.kind = "obj" /\ line.done /\ ~HandlerStreams(t) ->
                 /\ out' = [out EXCEPT ![t] = Returned(given, NoneVal)]
                 /\ pc' = [pc EXCEPT ![t] = "done"]
            [] line.kind = "obj" /\ ~line.done ->
                 /\ out' = [out EXCEPT ![t] = given]
                 /\ pc' = pc
    /\ http' = IF line.kind = "obj"
               THEN HandlerConsumes(t, GenerateChunk(line)) ELSE http
    /\ UNCHANGED <<client, now, chat404, fetched_at, pure, call, loc, reqs>>

\* The stream of /api/generate ends.
GenStreamEnd(t) ==
    /\ pc[t] = "cc_gen_stream"
    /\ pc' = [pc EXCEPT ![t] = "done"]
    /\ out' = [out EXCEPT ![t] = Returned(@, NoneVal)]
    /\ UNCHANGED <<client, now, chat404, fetched_at, pure, call, loc, reqs, http>>

\* The connection breaks while the stream of /api/generate is read.
GenStreamAbort(t) ==
    /\ pc[t] = "cc_gen_stream"
    /\ pc' = [pc EXCEPT ![t] = "done"]
    /\ out' = [out EXCEPT ![t] = Raised(@, "ConnectionError")]
    /\ UNCHANGED <<client, now, chat404, fetched_at, pure, call, loc, reqs, http>>

(***************************************************************************)
(* list_models().                                                          *)
(***************************************************************************)
\* The models of a cached body: self._models_cache.get('models', []).
ModelsOf(body) == IF body \in Snapshots THEN body ELSE "[]"

\* "if self._models_cache and current_time - self._models_cache_time < 300".
CacheIsFresh(current_time) ==
    models_cache # NoCache /\ current_time - models_cache_time < CACHE_TTL

\* The entry of list_models: the cached models, or the first GET /api/tags.
ListModelsEnter(t, via, runs_on) ==
    /\ pc[t] = "idle"
    /\ call' = [call EXCEPT ![t] = [NoCall EXCEPT !.op = "list_models",
                                                  !.via = via,
                                                  !.runs_on = runs_on]]
    /\ IF CacheIsFresh(now)
       THEN /\ pc' = [pc EXCEPT ![t] = "done"]
            /\ out' = [out EXCEPT ![t] =
                          IF models_cache = "nondict"
                          THEN Raised(@, "AttributeError")
                          ELSE [Returned(@, NoneVal) EXCEPT
                                   !.models = ModelsOf(models_cache)]]
            /\ UNCHANGED <<loc, reqs>>
       ELSE /\ pc' = [pc EXCEPT ![t] = "lm_get"]
            /\ loc' = [loc EXCEPT ![t].current_time = now,
                                  ![t].attempt = 0,
                                  ![t].retry_delay = initial_retry_delay]
            /\ reqs' = [reqs EXCEPT ![t].tags = @ + 1]
            /\ out' = out
    /\ UNCHANGED <<client, now, chat404, fetched_at, pure, http>>

CallListModels(t) == ListModelsEnter(t, "direct", "caller")

\* A retry loop that never lengthens its delay.
NextDelayConstant(retry_delay) == retry_delay

\* The delay after a failed attempt: "retry_delay *= 2".
NextDelay(retry_delay) == retry_delay * 2

\* Whether a failed attempt is followed by another one.
RetriesLeft(attempt) == attempt < max_retries - 1

\* A client that drops its cache when an attempt fails.
CacheDroppedOnFailure(answered, body) == IF answered THEN body ELSE NoCache

\* self._models_cache after an attempt: "self._models_cache = result" is
\* reached only when the request and response.json() raised nothing.
CacheAfterAttempt(answered, body) == IF answered THEN body ELSE models_cache

\* The answer of GET /api/tags in list_models.
ListModelsAnswer(t, outcome, body) ==
    /\ pc[t] = "lm_get"
    /\ models_cache' = CacheAfterAttempt(outcome = "200" /\ body # "bad", body)
    /\ IF outcome = "200" /\ body # "bad"
       THEN /\ models_cache_time' = loc[t].current_time
            /\ fetched_at' = IF body \in Snapshots THEN now ELSE fetched_at
            /\ pc' = [pc EXCEPT ![t] = "done"]
            /\ out' = [out EXCEPT ![t] =
                          IF body = "nondict"
                          THEN Raised(@, "AttributeError")
                          ELSE [Returned(@, NoneVal) EXCEPT
                                   !.models = ModelsOf(body)]]
            /\ loc' = loc
       ELSE /\ UNCHANGED <<models_cache_time, fetched_at>>
            /\ IF RetriesLeft(loc[t].attempt)
               THEN /\ pc' = [pc EXCEPT ![t] = "lm_sleep"]
                    /\ out' = [out EXCEPT ![t].sleeps =
                                  Append(@, loc[t].retry_delay)]
                    /\ loc' = [loc EXCEPT ![t].wake_at =
                                  now + loc[t].retry_delay]
               ELSE /\ pc' = [pc EXCEPT ![t] = "done"]
                    /\ out' = [out EXCEPT ![t] = Raised(@, "RequestException")]
                    /\ loc' = loc
    /\ UNCHANGED <<supports_chat_api, check_cache,
                   connection_verified, lock, now, chat404,
                   pure, call, reqs, http>>

\* time.sleep(retry_delay) is over: the next attempt is sent.
ListModelsWake(t) ==
    /\ pc[t] = "lm_sleep"
    /\ now >= loc[t].wake_at
    /\ pc' = [pc EXCEPT ![t] = "lm_get"]
    /\ loc' = [loc EXCEPT ![t].retry_delay = NextDelay(@),
                          ![t].attempt = @ + 1,
                          ![t].wake_at = 0]
    /\ reqs' = [reqs EXCEPT ![t].tags = @ + 1]
    /\ UNCHANGED <<client, now, chat404, fetched_at, pure, call, out, http>>

\* Time passes.
Tick ==
    /\ now + TickLen <= MaxTime
    /\ now' = now + TickLen
    /\ UNCHANGED <<client, chat404, fetched_at, pure, pc, call, loc, out, reqs, http>>

(***************************************************************************)
(* OllamaChatHandler.post, which runs on the thread of the event loop.     *)
(***************************************************************************)
\* The members of the body of a chat request, each a value with its type:
\* a model name is the sequence of its characters.
GoodName == Str(<<"l", "3">>)
BadName == Str(<<"l", " ", "3">>)
NumberName == [t |-> "num", v |-> <<>>]
TextTemperature == Str(<<"h", "o", "t">>)
ListOf(messages) == [t |-> "list", v |-> messages]

\* Messages that are malformed: [] is no object, an object without role, an
\* object without content, an object whose role is not one of the three.
MalformedMessages ==
    { <<>>, [content |-> "q"], [role |-> "user"], Msg("tool", "q") }
MalformedLists ==
    { <<m>> : m \in MalformedMessages }
        \cup { <<Msg("user", "q"), m>> : m \in MalformedMessages }

\* The JSON object with the members whose value is not Absent.
Body(model, temperature, messages, stream) ==
    LET full == [model |-> model, temperature |-> temperature,
                 messages |-> messages, stream |-> stream]
    IN [k \in { f \in {"model", "temperature", "messages"} : full[f].t # "absent" }
                 \cup {"stream"} |-> full[k]]

\* The bodies of the requests for chat: the well-formed ones, and those with
\* a member missing or malformed.
ValidBodies ==
    { Body(GoodName, Absent, ListOf(messages), stream) :
          messages \in MessageLists, stream \in BOOLEAN }
InvalidBodies ==
    { Body(model, temperature, messages, FALSE) :
          model \in {GoodName, BadName, NumberName, Absent},
          temperature \in {Absent, TextTemperature},
          messages \in { ListOf(l) : l \in MalformedLists }
                           \cup {ListOf(<<Msg("user", "q")>>), Absent} }
ChatBodiesIn == ValidBodies \cup InvalidBodies

\* re.match(r'^[a-zA-Z0-9_\-:.]+$', model), for the characters of the names
\* above.
NameChars == {"l", "3", "_", "-", ":", "."}
MatchesNamePattern(name) ==
    Len(name) >= 1 /\ \A i \in 1..Len(name) : name[i] \in NameChars

\* "not isinstance(msg, dict) or 'role' not in msg or 'content' not in msg",
\* then the test of the role.
WellFormedMessage(msg) ==
    /\ "role" \in DOMAIN msg
    /\ "content" \in DOMAIN msg
    /\ msg.role \in {"system", "user", "assistant"}

\* self.set_status(status) and self.finish(...): 200 is the status of a
\* response whose status is not set.
Finish(h, status) == [h EXCEPT !.status = status, !.finished = @ + 1]

\* The status the handler answers with before it calls chat_completion, 0
\* when it goes on to the call: 500 is the answer of "except Exception".
Validated(body) ==
    IF ~ {"model", "messages"} \subseteq DOMAIN body THEN 400
    ELSE IF "temperature" \in DOMAIN body /\ body.temperature.t = "str" THEN 500
    ELSE IF body.model.t # "str" THEN 500
    ELSE IF ~MatchesNamePattern(body.model.v) THEN 400
    ELSE IF \E i \in 1..Len(body.messages.v) :
                ~WellFormedMessage(body.messages.v[i]) THEN 400
    ELSE IF FilteredMessages(body.messages.v) = <<>> THEN 400
    ELSE 0

\* The request is read and validated; chat_completion is called with the
\* filtered messages when the body passes.
ChatHandlerPost(t, body) ==
    /\ pc[t] = "idle"
    /\ t = EventLoop
    /\ IF Validated(body) # 0
       THEN /\ pc' = [pc EXCEPT ![t] = "responded"]
            /\ http' = [http EXCEPT ![t] = Finish(@, Validated(body))]
            /\ call' = [call EXCEPT ![t] = [NoCall EXCEPT !.op = "chat_post",
                                                         !.via = "handler",
                                                         !.request = body,
                                                         !.runs_on = "event_loop"]]
       ELSE /\ pc' = [pc EXCEPT ![t] = "cc_verify"]
            /\ call' = [call EXCEPT ![t] =
                           [op |-> "chat_completion", stream |-> body.stream,
                            via |-> "handler",
                            messages |-> FilteredMessages(body.messages.v),
                            after404 |-> chat404, request |-> body,
                            runs_on |-> "event_loop"]]
            /\ http' = http
    /\ UNCHANGED <<client, now, chat404, fetched_at, pure, loc, out, reqs>>

\* The response of the non-streaming branch once the generator is consumed.
NonStreamingResponse(o, h) ==
    IF o.ret = "raise"
    THEN Finish(h, 500)
    ELSE [Finish(h, 200) EXCEPT !.content = Str(h.final_content)]

\* A streaming branch outside any "except": what the generator raises
\* leaves the handler.
StreamingResponseUncaught(o, h) ==
    IF o.ret = "raise"
    THEN [h EXCEPT !.escaped = TRUE]
    ELSE Finish(h, 200)

\* The response of the streaming branch: self.finish() after the loop, the
\* answer of "except Exception" when the generator raises.
StreamingResponse(o, h) ==
    IF o.ret = "raise"
    THEN Finish(h, 500)
    ELSE Finish(h, 200)

\* The handler finishes its response.
ChatHandlerFinish(t) ==
    /\ pc[t] = "done"
    /\ call[t].via = "handler"
    /\ pc' = [pc EXCEPT ![t] = "responded"]
    /\ http' = [http EXCEPT ![t] =
                   IF call[t].stream THEN StreamingResponse(out[t], @)
                   ELSE NonStreamingResponse(out[t], @)]
    /\ UNCHANGED <<client, now, chat404, fetched_at, pure, call, loc, out, reqs>>

(***************************************************************************)
(* OllamaModelsHandler.get: list_models is called by the handler itself.   *)
(***************************************************************************)
ModelsHandlerGet(t) ==
    /\ t = EventLoop
    /\ ListModelsEnter(t, "models_handler", "event_loop")

\* The answer of a handler whose call has returned or raised: the result
\* with status 200, or the answer of its "except Exception".
HandlerResponse(o, h) ==
    IF o.ret = "raise" THEN Finish(h, 500) ELSE Finish(h, 200)

ModelsHandlerFinish(t) ==
    /\ pc[t] = "done"
    /\ call[t].via = "models_handler"
    /\ pc' = [pc EXCEPT ![t] = "responded"]
    /\ http' = [http EXCEPT ![t] = HandlerResponse(out[t], @)]
    /\ UNCHANGED <<client, now, chat404, fetched_at, pure, call, loc, out, reqs>>

(***************************************************************************)
(* OllamaEmbeddingsHandler.post and generate_embeddings.                   *)
(***************************************************************************)
\* The bodies of the requests for embeddings: members model and text.
EmbeddingsRequests ==
    { [model |-> GoodName, text |-> Str("x")], [model |-> BadName, text |-> Str("x")],
      [model |-> NumberName, text |-> Str("x")], [model |-> GoodName],
      [text |-> Str("x")] }

\* A body of POST /api/embeddings: an object with the embedding, the empty
\* object, JSON that is no object, text that is not JSON.
EmbeddingsBodies == {"vector", "{}", "nondict", "bad"}

\* The status the handler answers with before generate_embeddings, 0 when
\* it goes on to the call.
EmbeddingsValidated(body) ==
    IF ~ {"model", "text"} \subseteq DOMAIN body THEN 400
    ELSE IF body.model.t # "str" THEN 500
    ELSE IF ~MatchesNamePattern(body.model.v) THEN 400
    ELSE 0

EmbeddingsHandlerPost(t, body) ==
    /\ pc[t] = "idle"
    /\ t = EventLoop
    /\ call' = [call EXCEPT ![t] = [NoCall EXCEPT !.op = "generate_embeddings",
                                                  !.via = "embeddings_handler",
                                                  !.runs_on = "event_loop"]]
    /\ IF EmbeddingsValidated(body) # 0
       THEN /\ pc' = [pc EXCEPT ![t] = "responded"]
            /\ http' = [http EXCEPT ![t] = Finish(@, EmbeddingsValidated(body))]
            /\ reqs' = reqs
       ELSE /\ pc' = [pc EXCEPT ![t] = "em_post"]
            /\ reqs' = [reqs EXCEPT ![t].embeddings = @ + 1]
            /\ http' = http
    /\ UNCHANGED <<client, now, chat404, fetched_at, pure, loc, out>>

\* The answer of POST /api/embeddings: result.get("embedding", []), or the
\* exception of the request, of response.json(), of .get on a non-object.
EmbeddingsAnswer(t, outcome, body) ==
    /\ pc[t] = "em_post"
    /\ pc' = [pc EXCEPT ![t] = "done"]
    /\ out' = [out EXCEPT ![t] =
                  IF outcome # "200" \/ body = "bad"
                  THEN Raised(@, "RequestException")
                  ELSE IF body = "nondict" THEN Raised(@, "AttributeError")
                  ELSE Returned(@, NoneVal)]
    /\ UNCHANGED <<client, now, chat404, fetched_at, pure, call, loc, reqs, http>>

EmbeddingsHandlerFinish(t) ==
    /\ pc[t] = "done"
    /\ call[t].via = "embeddings_handler"
    /\ pc' = [pc EXCEPT ![t] = "responded"]
    /\ http' = [http EXCEPT ![t] = HandlerResponse(out[t], @)]
    /\ UNCHANGED <<client, now, chat404, fetched_at, pure, call, loc, out, reqs>>

(***************************************************************************)
(* OllamaCellContextHandler.post: process_request runs on the executor.    *)
(***************************************************************************)
\* The bodies of the requests: JSON that is no object, and objects with the
\* members model and cell_content, "" for a member that is empty or absent.
NumberContent == [t |-> "num", v |-> <<>>]
CellRequests ==
    { <<>> } \cup
    { [model |-> model, cell_content |-> content] :
          model \in {"l3", ""}, content \in {Str("x = 1"), Str(""), NumberContent} }

\* The status the handler answers with before process_request, 0 when it
\* goes on: body.get on a non-object and len(cell_content) of a number end
\* in "except Exception".
CellValidated(body) ==
    IF DOMAIN body = {} THEN 500
    ELSE IF body.cell_content.t # "str" THEN 500
    ELSE IF body.model = "" THEN 400
    ELSE IF body.cell_content.v = "" THEN 400
    ELSE 0

CellContextHandlerPost(t, body) ==
    /\ pc[t] = "idle"
    /\ t = EventLoop
    /\ IF CellValidated(body) # 0
       THEN /\ pc' = [pc EXCEPT ![t] = "responded"]
            /\ call' = [call EXCEPT ![t] = [NoCall EXCEPT !.op = "process_request",
                                                          !.via = "cell_handler",
                                                          !.runs_on = "event_loop"]]
            /\ http' = [http EXCEPT ![t] = Finish(@, CellValidated(body))]
            /\ reqs' = reqs
       ELSE /\ pc' = [pc EXCEPT ![t] = "cx_tags"]
            /\ call' = [call EXCEPT ![t] = [NoCall EXCEPT !.op = "process_request",
                                                          !.via = "cell_handler",
                                                          !.runs_on = "executor"]]
            /\ reqs' = [reqs EXCEPT ![t].tags = @ + 1]
            /\ http' = http
    /\ UNCHANGED <<client, now, chat404, fetched_at, pure, loc, out>>

\* process_request returns a dictionary, never raises.
CellResult(o, result) == [Returned(o, NoneVal) EXCEPT !.result = result]

\* The answer of the test GET /api/tags, and POST /api/chat sent.
CellContextTags(t, outcome) ==
    /\ pc[t] = "cx_tags"
    /\ IF outcome = "200"
       THEN /\ pc' = [pc EXCEPT ![t] = "cx_chat"]
            /\ reqs' = [reqs EXCEPT ![t].chat = @ + 1]
            /\ out' = out
       ELSE /\ pc' = [pc EXCEPT ![t] = "done"]
            /\ out' = [out EXCEPT ![t] = CellResult(@, "error")]
            /\ reqs' = reqs
    /\ UNCHANGED <<client, now, chat404, fetched_at, pure, call, loc, http>>

\* The answer of POST /api/chat: 404 sends POST /api/generate.
CellContextChat(t, outcome, body) ==
    /\ pc[t] = "cx_chat"
    /\ IF outcome = "404"
       THEN /\ pc' = [pc EXCEPT ![t] = "cx_generate"]
            /\ reqs' = [reqs EXCEPT ![t].gen = @ + 1]
            /\ out' = out
       ELSE /\ pc' = [pc EXCEPT ![t] = "done"]
            /\ out' = [out EXCEPT ![t] =
                          CellResult(@, IF outcome = "200" /\ body.kind # "bad"
                                        THEN "message" ELSE "error")]
            /\ reqs' = reqs
    /\ UNCHANGED <<client, now, chat404, fetched_at, pure, call, loc, http>>

\* The answer of POST /api/generate: generate_result.get("response", ...).
CellContextGenerate(t, outcome, body) ==
    /\ pc[t] = "cx_generate"
    /\ pc' = [pc EXCEPT ![t] = "done"]
    /\ out' = [out EXCEPT ![t] =
                  CellResult(@, IF outcome = "200" /\ body.kind = "obj"
                                THEN "message" ELSE "error")]
    /\ UNCHANGED <<client, now, chat404, fetched_at, pure, call, loc, reqs, http>>

\* 'if "error" in result': status 500, else the result with status 200.
CellContextHandlerFinish(t) ==
    /\ pc[t] = "done"
    /\ call[t].via = "cell_handler"
    /\ pc' = [pc EXCEPT ![t] = "responded"]
    /\ http' = [http EXCEPT ![t] =
                   IF out[t].result = "error" THEN Finish(@, 500)
                   ELSE Finish(@, 200)]
    /\ UNCHANGED <<client, now, chat404, fetched_at, pure, call, loc, out, reqs>>

\* The steps of the handlers of models, embeddings and cell context.
HandlerStep(t) ==
    \/ ModelsHandlerGet(t)
    \/ ModelsHandlerFinish(t)
    \/ \E body \in EmbeddingsRequests : EmbeddingsHandlerPost(t, body)
    \/ \E outcome \in PostOutcomes, body \in EmbeddingsBodies :
           EmbeddingsAnswer(t, outcome, body)
    \/ EmbeddingsHandlerFinish(t)
    \/ \E body \in CellRequests : CellContextHandlerPost(t, body)
    \/ \E outcome \in GetOutcomes : CellContextTags(t, outcome)
    \/ \E outcome \in PostOutcomes, body \in ChatBodies :
           CellContextChat(t, outcome, body)
    \/ \E outcome \in PostOutcomes, body \in GenBodies :
           CellContextGenerate(t, outcome, body)
    \/ CellContextHandlerFinish(t)

\* The caller takes the outcome and is free for its next call.
Return(t) ==
    /\ \/ pc[t] = "done" /\ call[t].via = "direct"
       \/ pc[t] = "responded"
    /\ pc' = [pc EXCEPT ![t] = "idle"]
    /\ call' = [call EXCEPT ![t] = NoCall]
    /\ loc' = [loc EXCEPT ![t] = NoLoc]
    /\ out' = [out EXCEPT ![t] = NoOut]
    /\ reqs' = [reqs EXCEPT ![t] = NoReqs]
    /\ http' = [http EXCEPT ![t] = NoHttp]
    /\ UNCHANGED <<client, now, chat404, fetched_at, pure>>

\* The steps of caller t inside a call it has begun; the server answers
\* with a body of chatBodies, genBodies or tagsBodies.
Step(t, chatBodies, genBodies, tagsBodies) ==
    \/ VerifyEnter(t)
    \/ VerifyVersion(t)
    \/ \E outcome \in GetOutcomes, body \in TagsBodies :
           VerifyTags(t, outcome, body)
    \/ CheckSupport(t)
    \/ \E outcome \in HeadOutcomes : ProbeAnswer(t, outcome)
    \/ ProbeReturn(t)
    \/ \E outcome \in PostOutcomes, body \in chatBodies :
           ChatAnswer(t, outcome, body)
    \/ Fallback(t)
    \/ \E outcome \in PostOutcomes, body \in genBodies :
           GenAnswer(t, outcome, body)
    \/ \E outcome \in GetOutcomes, body \in tagsBodies :
           ListModelsAnswer(t, outcome, body)
    \/ ListModelsWake(t)
    \/ Return(t)

\* The steps of a call that streams, and of the chat handler.
StreamStep(t) ==
    \/ \E line \in ChatLines : ChatStreamLine(t, line)
    \/ ChatStreamEnd(t)
    \/ ChatStreamAbort(t)
    \/ \E line \in GenLines : GenStreamLine(t, line)
    \/ GenStreamEnd(t)
    \/ GenStreamAbort(t)
    \/ ChatHandlerFinish(t)

\* One caller, the thread of the event loop: every operation, every payload.
Next ==
    \/ Tick
    \/ \E stream \in BOOLEAN, messages \in MessageLists :
           CallChatCompletion(EventLoop, stream, messages)
    \/ \E body \in ChatBodiesIn : ChatHandlerPost(EventLoop, body)
    \/ CallListModels(EventLoop)
    \/ Step(EventLoop, ChatBodies, GenBodies, TagsBodies)
    \/ StreamStep(EventLoop)
    \/ HandlerStep(EventLoop)

Spec == Init /\ [][Next]_vars

\* Concurrent callers of chat_completion with stream false and of
\* list_models; the bodies of the server are the plain ones.
PlainChatBodies == { ChatObj(Str("a"), TRUE) }
PlainGenBodies == { GenObj(Str("a"), TRUE) }
PlainTagsBodies == { "tagsA", "tagsB" }
PlainMessages == <<Msg("user", "q")>>

NextConc ==
    \/ Tick
    \/ \E t \in Callers :
           \/ CallChatCompletion(t, FALSE, PlainMessages)
           \/ CallListModels(t)
           \/ Step(t, PlainChatBodies, PlainGenBodies, PlainTagsBodies)

SpecConc == Init /\ [][NextConc]_vars

\* The first use of a client by concurrent threads, one call of
\* chat_completion each, up to the result of _check_chat_api_support.
NextFirstCheck ==
    \E t \in FirstCallers :
        \/ CallChatCompletion(t, FALSE, PlainMessages)
        \/ VerifyEnter(t)
        \/ VerifyVersion(t)
        \/ \E outcome \in GetOutcomes, body \in PlainTagsBodies :
               VerifyTags(t, outcome, body)
        \/ CheckSupport(t)
        \/ \E outcome \in HeadOutcomes : ProbeAnswer(t, outcome)
        \/ ProbeReturn(t)

SpecFirstCheck == Init /\ [][NextFirstCheck]_vars

\* Concurrent threads that call list_models once each.
NextFirstFetch ==
    \/ Tick
    \/ \E t \in FirstCallers :
           \/ CallListModels(t)
           \/ \E outcome \in GetOutcomes, body \in PlainTagsBodies :
                  ListModelsAnswer(t, outcome, body)
           \/ ListModelsWake(t)

SpecFirstFetch == Init /\ [][NextFirstFetch]_vars

(***************************************************************************)
(* OllamaBaseHandler.paginate_response(content, chunk_size).  A text is a  *)
(* sequence of characters, positions count from 0 as str indices do.       *)
(***************************************************************************)
\* The characters of a text: a period or a blank alone is ordinary text.
Chars == {".", " ", "\n"}
Texts == UNION { [1..n -> Chars] : n \in 0..MaxText }
ChunkSizes == 1..MaxChunkSize
\* The sizes max_response_chunk_size can be configured with: any integer,
\* of which those from 0 are taken.
ConfiguredChunkSizes == 0..MaxChunkSize
\* The chunks after which the loop is followed no further: one more than a
\* loop that advances can append.
MaxChunks == MaxText + 1

\* content[a:b], for 0 <= a <= b <= len(content).
Slice(content, a, b) == SubSeq(content, a + 1, b)

Minimum(a, b) == IF a <= b THEN a ELSE b

\* A search that also takes a match whose last character lies at end.
RFindPastEnd(content, sub, start, end) ==
    LET hits == { i \in start..(end - Len(sub) + 1) :
                      /\ i + Len(sub) <= Len(content)
                      /\ Slice(content, i, i + Len(sub)) = sub }
    IN IF hits = {} THEN -1 ELSE CHOOSE i \in hits : \A j \in hits : j <= i

\* content.rfind(sub, start, end): the highest index of sub inside
\* content[start:end], -1 when there is none.
RFind(content, sub, start, end) ==
    LET hits == { i \in start..(end - Len(sub)) :
                      Slice(content, i, i + Len(sub)) = sub }
    IN IF hits = {} THEN -1 ELSE CHOOSE i \in hits : \A j \in hits : j <= i

\* A test that takes every break found, wherever it lies in the chunk.
PastStart(break, current_pos, chunk_size) == break > current_pos

\* "break != -1 and break > current_pos + chunk_size // 2".
PastMidpoint(break, current_pos, chunk_size) ==
    break # -1 /\ break > current_pos + chunk_size \div 2

\* The rule that ends the chunk starting at current_pos, and end_pos.
ChunkEnd(content, current_pos, chunk_size) ==
    LET end_pos == Minimum(current_pos + chunk_size, Len(content))
        paragraph_break == RFind(content, <<"\n", "\n">>, current_pos, end_pos)
        sentence_break == RFind(content, <<".", " ">>, current_pos, end_pos)
    IN IF end_pos < Len(content)
       THEN IF PastMidpoint(paragraph_break, current_pos, chunk_size)
            THEN [rule |-> "paragraph", end_pos |-> paragraph_break + 2]
            ELSE IF PastMidpoint(sentence_break, current_pos, chunk_size)
            THEN [rule |-> "sentence", end_pos |-> sentence_break + 2]
            ELSE [rule |-> "hard", end_pos |-> end_pos]
       ELSE [rule |-> "rest", end_pos |-> end_pos]

\* A chunk without the whitespace at its end.
ChunkStripped(content, current_pos, end_pos) ==
    IF end_pos > current_pos /\ content[end_pos] \in {" ", "\n"}
    THEN Slice(content, current_pos, end_pos - 1)
    ELSE Slice(content, current_pos, end_pos)

\* "chunks.append(content[current_pos:end_pos])".
Chunk(content, current_pos, end_pos) == Slice(content, current_pos, end_pos)

\* An evaluation about to begin: at "entry" with its arguments; start, end
\* and rule are those of the chunk appended last.
PgEntry(content, chunk_size, enabled) ==
    [at |-> "entry", content |-> content, chunk_size |-> chunk_size,
     enable_response_pagination |-> enabled, current_pos |-> 0,
     chunks |-> <<>>, start |-> 0, end |-> 0, rule |-> "none"]

\* Pagination is disabled, or the content fits one chunk: [content].
PaginateSkip ==
    /\ pg.at = "entry"
    /\ ~pg.enable_response_pagination \/ Len(pg.content) <= pg.chunk_size
    /\ pg' = [pg EXCEPT !.at = "returned", !.chunks = <<pg.content>>]
    /\ UNCHANGED <<client, now, chat404, fetched_at, fmt, ext, tsel, pc, call, loc, out,
                   reqs, http>>

\* One turn of "while current_pos < len(content)".
PaginateChunk ==
    /\ pg.at \in {"entry", "loop"}
    /\ pg.at = "entry" =>
           pg.enable_response_pagination /\ Len(pg.content) > pg.chunk_size
    /\ pg.current_pos < Len(pg.content)
    /\ Len(pg.chunks) < MaxChunks
    /\ LET e == ChunkEnd(pg.content, pg.current_pos, pg.chunk_size)
       IN pg' = [pg EXCEPT !.at = "loop",
                           !.chunks = Append(@, Chunk(pg.content, pg.current_pos,
                                                      e.end_pos)),
                           !.start = pg.current_pos,
                           !.end = e.end_pos,
                           !.rule = e.rule,
                           !.current_pos = e.end_pos]
    /\ UNCHANGED <<client, now, chat404, fetched_at, fmt, ext, tsel, pc, call, loc, out,
                   reqs, http>>

\* The loop is left: "return chunks".
PaginateReturn ==
    /\ pg.at = "loop"
    /\ pg.current_pos >= Len(pg.content)
    /\ pg' = [pg EXCEPT !.at = "returned"]
    /\ UNCHANGED <<client, now, chat404, fetched_at, fmt, ext, tsel, pc, call, loc, out,
                   reqs, http>>

\* Every text, every chunk size, pagination enabled or not.
InitPaginate ==
    /\ Constructed
    /\ connection_verified
    /\ models_cache = NoCache
    /\ fmt = NoFmt
    /\ ext = NoExt
    /\ tsel = NoTsel
    /\ pg \in { PgEntry(content, chunk_size, enabled) :
                   content \in Texts, chunk_size \in ChunkSizes,
                   enabled \in BOOLEAN }

NextPaginate == PaginateSkip \/ PaginateChunk \/ PaginateReturn

SpecPaginate == InitPaginate /\ [][NextPaginate]_vars

\* Every text, every configured chunk size, pagination enabled.
InitPaginateConfigured ==
    /\ Constructed
    /\ connection_verified
    /\ models_cache = NoCache
    /\ fmt = NoFmt
    /\ ext = NoExt
    /\ tsel = NoTsel
    /\ pg \in { PgEntry(content, chunk_size, TRUE) :
                   content \in Texts, chunk_size \in ConfiguredChunkSizes }

SpecPaginateConfigured == InitPaginateConfigured /\ [][NextPaginate]_vars

(***************************************************************************)
(* OllamaClient._format_generate_payload(messages).  A line, and the       *)
(* prompt, is the sequence of the pieces it is made of: the markers the    *)
(* code writes and the contents of the messages.                           *)
(***************************************************************************)
Roles == {"system", "user", "assistant"}
\* The content of the message at each place of a conversation: no two alike.
ContentAt(i) == <<"c1", "c2", "c3", "c4", "c5">>[i]
Conversations ==
    UNION { { [i \in 1..n |-> Msg(roles[i], ContentAt(i))] :
                  roles \in [1..n -> Roles] } : n \in 0..MaxMessages }

\* line.endswith("[/INST]"), line.endswith("</s>"): every piece but the
\* markers " [/INST]" and " </s>" is a content or ends with a newline.
EndsWithInst(line) == line # <<>> /\ line[Len(line)] = " [/INST]"
EndsWithTurn(line) == line # <<>> /\ line[Len(line)] = " </s>"

\* A client that never takes a system message for the prefix.
SystemNeverPrefix(role, formatted_lines) == FALSE

\* "role.lower() == 'system' and len(formatted_lines) == 0".
SystemIsPrefix(role, formatted_lines) ==
    role = "system" /\ formatted_lines = <<>>

\* An assistant line without its closing marker.
AssistantLineOpen(content) == <<content>>

\* f"{content} </s>".
AssistantLine(content) == <<content, " </s>">>

\* The line appended for a message, <<>> when none is.
LineOf(msg, formatted_lines) ==
    IF SystemIsPrefix(msg.role, formatted_lines)
    THEN <<"<s>[INST] <<SYS>>\n", msg.content, "\n<</SYS>>\n\n">>
    ELSE IF msg.role = "user"
    THEN IF formatted_lines # <<>>
            /\ EndsWithInst(formatted_lines[Len(formatted_lines)])
         THEN <<"<s>[INST] ", msg.content, " [/INST]">>
         ELSE <<msg.content, " [/INST]">>
    ELSE IF msg.role = "assistant"
    THEN AssistantLine(msg.content)
    ELSE <<>>

\* The last line gets " [/INST]" when it ends with neither marker.
LastLineClosed(formatted_lines) ==
    LET n == Len(formatted_lines)
    IN IF n > 0 /\ ~EndsWithInst(formatted_lines[n])
                /\ ~EndsWithTurn(formatted_lines[n])
       THEN [formatted_lines EXCEPT ![n] = Append(@, " [/INST]")]
       ELSE formatted_lines

\* "".join(formatted_lines).
RECURSIVE Joined(_)
Joined(formatted_lines) ==
    IF formatted_lines = <<>> THEN <<>>
    ELSE Head(formatted_lines) \o Joined(Tail(formatted_lines))

FmtEntry(messages) ==
    [at |-> "loop", messages |-> messages, i |-> 1,
     formatted_lines |-> <<>>, prompt |-> <<>>]

\* One turn of "for msg in messages".
FormatMessage ==
    /\ fmt.at = "loop"
    /\ fmt.i <= Len(fmt.messages)
    /\ LET line == LineOf(fmt.messages[fmt.i], fmt.formatted_lines)
       IN fmt' = [fmt EXCEPT !.i = @ + 1,
                             !.formatted_lines =
                                 IF line = <<>> THEN @ ELSE Append(@, line)]
    /\ UNCHANGED <<client, now, chat404, fetched_at, pg, ext, tsel, pc, call, loc, out,
                   reqs, http>>

\* After the loop: the last line is closed and the lines are joined.
FormatReturn ==
    /\ fmt.at = "loop"
    /\ fmt.i > Len(fmt.messages)
    /\ fmt' = [fmt EXCEPT !.at = "returned",
                          !.formatted_lines = LastLineClosed(@),
                          !.prompt = Joined(LastLineClosed(fmt.formatted_lines))]
    /\ UNCHANGED <<client, now, chat404, fetched_at, pg, ext, tsel, pc, call, loc, out,
                   reqs, http>>

\* Every conversation of at most MaxMessages messages.
InitFormat ==
    /\ Constructed
    /\ connection_verified
    /\ models_cache = NoCache
    /\ pg = NoPg
    /\ ext = NoExt
    /\ tsel = NoTsel
    /\ fmt \in { FmtEntry(messages) : messages \in Conversations }

NextFormat == FormatMessage \/ FormatReturn

SpecFormat == InitFormat /\ [][NextFormat]_vars

(***************************************************************************)
(* _load_jupyter_server_extension(server_app) and setup_handlers.          *)
(***************************************************************************)
\* A load about to begin.  enabled: config.enabled; in_container and
\* localhost: what the container check and the base URL give; config: the
\* OllamaConfig exists; warned: the container warning is logged; head: the
\* answer of the connection test; client: the OllamaClient exists;
\* settings: web_app.settings holds the client; registered: add_handlers
\* has added the routes; failed: the step that raised; raised: an exception
\* has left the function.
LoadEntry(enabled, in_container, localhost) ==
    [at |-> "config", enabled |-> enabled, in_container |-> in_container,
     localhost |-> localhost, config |-> FALSE, warned |-> FALSE,
     head |-> "none", client |-> FALSE, settings |-> FALSE,
     registered |-> FALSE, failed |-> "none", raised |-> FALSE]

\* The outer "except Exception": the error is logged, nothing is raised.
LoadAborted(e, step) == [e EXCEPT !.at = "returned", !.failed = step]

\* OllamaConfig(config=server_app.config), which may raise.
LoadConfig(ok) ==
    /\ ext.at = "config"
    /\ ext' = IF ok THEN [ext EXCEPT !.at = "enabled", !.config = TRUE]
              ELSE LoadAborted(ext, "config")
    /\ UNCHANGED <<client, now, chat404, fetched_at, pg, fmt, tsel, pc, call,
                   loc, out, reqs, http>>

\* A load that goes on whatever config.enabled is.
GateOpen(enabled) == TRUE

\* "if not config.enabled: return".
GatePassed(enabled) == enabled

\* The test of config.enabled, then the container check and its warning.
LoadCheckEnabled ==
    /\ ext.at = "enabled"
    /\ ext' = IF GatePassed(ext.enabled)
              THEN [ext EXCEPT !.at = "test",
                               !.warned = ext.in_container /\ ext.localhost]
              ELSE [ext EXCEPT !.at = "returned"]
    /\ UNCHANGED <<client, now, chat404, fetched_at, pg, fmt, tsel, pc, call,
                   loc, out, reqs, http>>

\* requests.head(.../api/tags): whatever the answer, the load goes on.
LoadTestConnection(outcome) ==
    /\ ext.at = "test"
    /\ ext' = [ext EXCEPT !.at = "client", !.head = outcome]
    /\ UNCHANGED <<client, now, chat404, fetched_at, pg, fmt, tsel, pc, call,
                   loc, out, reqs, http>>

\* OllamaClient(base_url=config.base_url): the constructor raises, or it
\* leaves a client that is verified with the models cached, verified with
\* nothing cached, or not verified.
LoadClient(ok, verified, cache) ==
    /\ ext.at = "client"
    /\ IF ok
       THEN /\ ext' = [ext EXCEPT !.at = "setup", !.client = TRUE]
            /\ connection_verified' = verified
            /\ models_cache' = cache
            /\ fetched_at' = (IF cache \in Snapshots THEN 0 ELSE -1)
       ELSE /\ ext' = LoadAborted(ext, "client")
            /\ UNCHANGED <<connection_verified, models_cache, fetched_at>>
    /\ UNCHANGED <<supports_chat_api, check_cache, lock, models_cache_time,
                   now, chat404, pg, fmt, tsel, pc, call, loc, out, reqs, http>>

\* setup_handlers: web_app.settings["base_url"] raises KeyError, or the
\* client is stored in the settings and add_handlers raises or adds the
\* routes.
SetupOutcomes == {"ok", "KeyError", "add_handlers"}

LoadSetupHandlers(outcome) ==
    /\ ext.at = "setup"
    /\ ext' = IF outcome = "ok"
              THEN [ext EXCEPT !.at = "returned", !.settings = TRUE,
                               !.registered = TRUE]
              ELSE [LoadAborted(ext, "setup") EXCEPT
                       !.settings = (outcome = "add_handlers")]
    /\ UNCHANGED <<client, now, chat404, fetched_at, pg, fmt, tsel, pc, call,
                   loc, out, reqs, http>>

\* Before the load no client exists: the variables of the client hold what
\* the first lines of its constructor assign.
InitLoad ==
    /\ Constructed
    /\ ~connection_verified
    /\ models_cache = NoCache
    /\ pg = NoPg
    /\ fmt = NoFmt
    /\ tsel = NoTsel
    /\ ext \in { LoadEntry(enabled, in_container, localhost) :
                    enabled \in BOOLEAN, in_container \in BOOLEAN,
                    localhost \in BOOLEAN }

NextLoad ==
    \/ \E ok \in BOOLEAN : LoadConfig(ok)
    \/ LoadCheckEnabled
    \/ \E outcome \in HeadOutcomes : LoadTestConnection(outcome)
    \/ \E ok \in BOOLEAN, verified \in BOOLEAN :
           \E cache \in (IF verified THEN Snapshots ELSE {}) \cup {NoCache} :
               LoadClient(ok, verified, cache)
    \/ \E outcome \in SetupOutcomes : LoadSetupHandlers(outcome)

SpecLoad == InitLoad /\ [][NextLoad]_vars

(***************************************************************************)
(* The choice of the upstream timeout, in OllamaChatHandler.post, in       *)
(* OllamaCellContextHandler.post and in chat_completion.  A content is the *)
(* sequence of its words; a keyword is in a content when one of its words, *)
(* in lower case, is the keyword.                                          *)
(***************************************************************************)
Vocabulary == {"x", "pandas", "Pandas", "jupyter", "predict", "import", "np"}
Contents == UNION { [1..n -> Vocabulary] : n \in 0..MaxWords }
CellTypes == {"code", "markdown"}
Choosers == {"chat_handler", "cell_context", "client"}

\* content.lower().
Lower(word) == IF word = "Pandas" THEN "pandas" ELSE word
Has(content, word) == \E i \in 1..Len(content) : Lower(content[i]) = word

\* is_data_science_content(content, cell_type): of the vocabulary, "pandas"
\* and "predict" are among ds_keywords.
IsDataScienceContent(content, cell_type) ==
    /\ cell_type # "markdown"
    /\ Has(content, "pandas") \/ Has(content, "predict")

\* _is_data_science_query on the last user message: of the vocabulary,
\* "pandas" and "jupyter" are among ds_keywords, and "import" with "np" is a
\* code pattern.
IsDataScienceQuery(content) ==
    \/ Has(content, "pandas") \/ Has(content, "jupyter")
    \/ Has(content, "import") /\ Has(content, "np")

\* The classification each place makes; has_user: the messages hold a user
\* message, whose content is classified.
Classified(where, content, cell_type, has_user) ==
    CASE where = "chat_handler" -> has_user /\ IsDataScienceContent(content, "code")
      [] where = "cell_context" -> IsDataScienceContent(content, cell_type)
      [] where = "client" -> has_user /\ IsDataScienceQuery(content)

\* The timeout each place chooses for the classification.
ChosenTimeout(where, is_data_science) ==
    CASE where = "chat_handler" ->
             IF is_data_science THEN DEFAULT_LONG_TIMEOUT ELSE DEFAULT_TIMEOUT
      [] where = "cell_context" ->
             IF is_data_science THEN CELL_CONTEXT_TIMEOUT ELSE DEFAULT_LONG_TIMEOUT
      [] where = "client" ->
             IF is_data_science THEN DEFAULT_LONG_TIMEOUT ELSE DEFAULT_TIMEOUT

TselEntry(where, content, cell_type, has_user) ==
    [at |-> "entry", where |-> where, content |-> content,
     cell_type |-> cell_type, has_user |-> has_user,
     is_data_science |-> FALSE, timeout |-> 0]

\* The content is classified.
ClassifyContent ==
    /\ tsel.at = "entry"
    /\ tsel' = [tsel EXCEPT !.at = "classified",
                            !.is_data_science =
                                Classified(tsel.where, tsel.content,
                                           tsel.cell_type, tsel.has_user)]
    /\ UNCHANGED <<client, now, chat404, fetched_at, pg, fmt, ext, pc, call,
                   loc, out, reqs, http>>

\* The timeout is chosen.
ChooseTimeout ==
    /\ tsel.at = "classified"
    /\ tsel' = [tsel EXCEPT !.at = "chosen",
                            !.timeout = ChosenTimeout(tsel.where,
                                                      tsel.is_data_science)]
    /\ UNCHANGED <<client, now, chat404, fetched_at, pg, fmt, ext, pc, call,
                   loc, out, reqs, http>>

\* Every place, every content of at most MaxWords words.
InitTimeout ==
    /\ Constructed
    /\ connection_verified
    /\ models_cache = NoCache
    /\ pg = NoPg
    /\ fmt = NoFmt
    /\ ext = NoExt
    /\ tsel \in { TselEntry(where, content, cell_type, has_user) :
                     where \in Choosers, content \in Contents,
                     cell_type \in CellTypes, has_user \in BOOLEAN }

NextTimeout == ClassifyContent \/ ChooseTimeout

SpecTimeout == InitTimeout /\ [][NextTimeout]_vars

(***************************************************************************)
(* The claims.                                                             *)
(***************************************************************************)
\* A call of chat_completion with stream false has ended by returning what
\* an endpoint answered, a body whose content is a string.
NonStreamingSuccess(t) ==
    /\ pc[t] \in {"done", "responded"}
    /\ call[t].op = "chat_completion"
    /\ ~call[t].stream
    /\ out[t].ret = "return"
    /\ out[t].endpoints # {}
    /\ out[t].upstream.t = "str"

\* C1: chat_completion with stream false, when the endpoint answers
\* successfully, hands its caller one response dictionary, not a stream of
\* chunks, whose message.content is the content of the upstream body.
C1_NonStreamingHandsDictionary ==
    \A t \in Threads :
        NonStreamingSuccess(t) =>
            LET handed == HandedToCaller(out[t].val)
            IN /\ handed.kind = "dict"
               /\ handed.value.msg = "dict"
               /\ handed.value.content = out[t].upstream

\* C2: for a non-streaming chat request the upstream server answers
\* successfully, message.content of the response OllamaChatHandler.post
\* writes equals the content of the upstream answer.
C2_HandlerContentIsUpstreamContent ==
    \A t \in Threads :
        (NonStreamingSuccess(t) /\ call[t].via = "handler" /\ pc[t] = "responded")
            => http[t].status = 200 /\ http[t].content = out[t].upstream

\* The POST of a call of chat_completion with stream false timed out.
NonStreamingTimeout(t) ==
    /\ pc[t] = "done"
    /\ call[t].op = "chat_completion"
    /\ ~call[t].stream
    /\ "timeout" \in {out[t].chat_answer, out[t].gen_answer}

\* C3: when the POST to the completion endpoint times out during a
\* non-streaming chat_completion, the call hands its caller a response
\* dictionary whose message.content is the "model took too long to respond"
\* notice, and no exception is raised.
C3_TimeoutHandsNotice ==
    \A t \in Threads :
        NonStreamingTimeout(t) =>
            LET handed == HandedToCaller(out[t].val)
            IN /\ out[t].ret # "raise"
               /\ handed.kind = "dict"
               /\ handed.value.content \in
                      {Str(ChatTimeoutNotice), Str(GenerateTimeoutNotice)}

\* C4: after a POST to /api/chat has returned 404, every later call of
\* chat_completion on the client sends no HEAD probe and no request to
\* /api/chat.
C4_After404NoChatRequest ==
    \A t \in Threads :
        (call[t].op = "chat_completion" /\ call[t].after404)
            => reqs[t].head = 0 /\ reqs[t].chat = 0

\* C5: one call of chat_completion sends at most one POST to /api/chat and at
\* most one to /api/generate; the one to /api/generate only when the
\* capability check reported the chat endpoint unsupported or this call's
\* POST to /api/chat returned 404; no call delivers output of both endpoints.
C5_OneEndpointPerCall ==
    \A t \in Threads :
        call[t].op = "chat_completion" =>
            /\ reqs[t].chat <= 1
            /\ reqs[t].gen <= 1
            /\ reqs[t].gen = 1 =>
                   (loc[t].supported = "False" \/ out[t].chat_answer = "404")
            /\ Cardinality(out[t].endpoints) <= 1

\* C6: in every interleaving of calls on one client, the probe sets
\* _supports_chat_api only while it is unset, and once a 404 on /api/chat
\* has set it to false it is false in every later state.
C6_FlagSetOnceFalseForever ==
    [][ /\ \A t \in Threads :
               (pc[t] = "cc_probe" /\ pc'[t] = "cc_probe_ret")
                   => supports_chat_api = "None"
        /\ chat404 => supports_chat_api' = "False" ]_vars

\* C7: the first capability check of a client sends exactly one HEAD to
\* /api/chat and records supported for every status other than 404, error
\* statuses included, unsupported for 404 and unsupported for a network
\* error of the probe.
C7_FirstCheckProbesOnce ==
    \A t \in Threads :
        /\ reqs[t].head <= 1
        /\ loc[t].supported # "unset" => supports_chat_api # "None"
        /\ pc[t] = "cc_probe" => reqs[t].head = 1 /\ supports_chat_api = "None"
        /\ pc[t] = "cc_probe_ret" =>
               /\ reqs[t].head = 1
               /\ loc[t].probe_status \in {"200", "405", "500"}
                      => supports_chat_api = "True"
               /\ loc[t].probe_status \in {"404", "neterr"}
                      => supports_chat_api = "False"

\* A probe answered with an error status has recorded the endpoint supported.
C7_Witness ==
    \E t \in Threads :
        /\ pc[t] = "cc_probe_ret"
        /\ loc[t].probe_status = "500"
        /\ supports_chat_api = "True"
        /\ reqs[t].head = 1

\* message.content of a response is present and is a string.
HasStringContent(response) ==
    /\ response.kind = "obj"
    /\ response.msg = "dict"
    /\ response.content.t = "str"

\* C8: every response chat_completion hands to its caller, a streamed chunk
\* or a non-streaming result, from either endpoint, has a message.content
\* that is present and is a string, never absent and never null.
C8_ContentIsAlwaysString ==
    \A t \in Threads :
        call[t].op = "chat_completion" =>
            /\ out[t].nYield > 0 => HasStringContent(out[t].chunk)
            /\ (~call[t].stream /\ out[t].ret = "return")
                   => HasStringContent(out[t].val)

\* The chunk yielded for a line: its content and its done flag are the line's.
ChunkOfLine(chunk, line) ==
    /\ chunk.done = line.done
    /\ \/ line.msg = "dict" /\ chunk.content = line.content
       \/ line.msg # "dict" /\ line.response # Absent
              /\ chunk.content = line.response
       \/ line.msg # "dict" /\ line.response = Absent
              /\ chunk.content \in {Absent, Str("")}

\* C9: in streaming mode chat_completion yields, in transport order, one
\* chunk for each non-empty line received before the end of the stream,
\* yields no chunk after the first chunk with done true, and skips a
\* malformed line without ending the stream and without raising.  (Stated
\* for streams whose JSON lines are objects.)
C9_StreamYieldsLinesUntilDone ==
    \A t \in Threads :
        (call[t].op = "chat_completion" /\ call[t].stream /\ ~out[t].nondict) =>
            /\ out[t].nYield = out[t].nObj
            /\ out[t].line.kind = "obj" => ChunkOfLine(out[t].chunk, out[t].line)
            /\ out[t].afterDone = 0
            /\ out[t].exc \notin {"JSONDecodeError", "AttributeError"}
            /\ (out[t].line.kind = "bad" /\ out[t].exc = "none")
                   => pc[t] \in {"cc_chat_stream", "cc_gen_stream", "cc_fallback",
                                 "cc_gen", "done", "responded"}

\* C10: when every attempt fails with a network-level error, list_models
\* makes exactly three GET attempts on /api/tags, sleeps 1 second after the
\* first failure and 2 seconds after the second, and then raises; an attempt
\* that succeeds ends the call with no further attempt.
C10_ThreeAttemptsDoublingDelay ==
    \A t \in Threads :
        call[t].op = "list_models" =>
            /\ out[t].sleeps \in {<<>>, <<1>>, <<1, 2>>}
            /\ reqs[t].tags =
                   Len(out[t].sleeps)
                       + (IF pc[t] = "lm_sleep" \/ reqs[t].tags = 0 THEN 0 ELSE 1)
            /\ (pc[t] = "done" /\ out[t].exc = "RequestException")
                   => reqs[t].tags = 3 /\ out[t].sleeps = <<1, 2>>

\* list_models has raised after its third failed attempt.
C10_Witness ==
    \E t \in Threads :
        /\ call[t].op = "list_models"
        /\ pc[t] = "done"
        /\ out[t].exc = "RequestException"
        /\ reqs[t].tags = 3
        /\ out[t].sleeps = <<1, 2>>

\* Caller t enters list_models in this step.
ListModelsCalled(t) ==
    pc[t] = "idle" /\ pc'[t] # "idle" /\ call'[t].op = "list_models"

\* C11: for 300 seconds after /api/tags has given a snapshot, to list_models
\* or to the connection verification, a call of list_models returns the
\* models of that snapshot without sending a request; the first call after
\* the 300 seconds have passed sends GET /api/tags again.  (Stated for a
\* client that still holds the snapshot.)
C11_SnapshotServedForFiveMinutes ==
    [][ \A t \in Threads :
            (ListModelsCalled(t) /\ fetched_at >= 0 /\ models_cache \in Snapshots) =>
                IF now - fetched_at < CACHE_TTL
                THEN /\ reqs'[t].tags = 0
                     /\ pc'[t] = "done"
                     /\ out'[t].ret = "return"
                     /\ out'[t].models = models_cache
                ELSE reqs'[t].tags = 1 /\ pc'[t] = "lm_get" ]_vars

\* The chunks put end to end.
RECURSIVE Concatenated(_)
Concatenated(chunks) ==
    IF chunks = <<>> THEN <<>>
    ELSE Head(chunks) \o Concatenated(Tail(chunks))

\* C12: for every text and every chunk size of at least 1, the chunks of
\* paginate_response put end to end in order are exactly the input text;
\* while the loop runs they are the text up to current_pos, and no chunk of
\* the loop is empty.
C12_ChunksReassembleText ==
    /\ pg.at = "loop" =>
           /\ Concatenated(pg.chunks) = Slice(pg.content, 0, pg.current_pos)
           /\ \A i \in 1..Len(pg.chunks) : pg.chunks[i] # <<>>
    /\ pg.at = "returned" => Concatenated(pg.chunks) = pg.content

\* A text has been returned in three chunks or more.
C12_Witness ==
    /\ pg.at = "returned"
    /\ Len(pg.chunks) >= 3
    /\ Concatenated(pg.chunks) = pg.content

\* C13: with pagination enabled, no chunk returned by paginate_response is
\* longer than the chunk size.
C13_NoChunkLongerThanSize ==
    (pg.at \in {"loop", "returned"} /\ pg.enable_response_pagination) =>
        \A i \in 1..Len(pg.chunks) : Len(pg.chunks[i]) <= pg.chunk_size

\* A text has been split into a chunk as long as the chunk size and a
\* shorter one.
C13_Witness ==
    /\ pg.at = "returned"
    /\ pg.enable_response_pagination
    /\ \E i \in 1..Len(pg.chunks) : Len(pg.chunks[i]) = pg.chunk_size
    /\ \E i \in 1..Len(pg.chunks) : Len(pg.chunks[i]) < pg.chunk_size

\* sub stands at index i of the text.
StandsAt(sub, i) ==
    i >= 0 /\ i + 2 <= Len(pg.content) /\ Slice(pg.content, i, i + 2) = sub

\* The chunk appended last ends just after the last sub of its window, the
\* chunk_size characters from its start.
EndsAfterLast(sub) ==
    /\ StandsAt(sub, pg.end - 2)
    /\ pg.end - 2 >= pg.start
    /\ \A j \in (pg.end - 1)..(pg.start + pg.chunk_size - 2) : ~StandsAt(sub, j)

\* The window of the chunk appended last holds sub, past its midpoint or
\* anywhere.
HoldsPastMidpoint(sub) ==
    \E j \in (pg.start + pg.chunk_size \div 2 + 1)..(pg.start + pg.chunk_size - 2) :
        StandsAt(sub, j)
HoldsAnywhere(sub) ==
    \E j \in pg.start..(pg.start + pg.chunk_size - 2) : StandsAt(sub, j)

\* The text that remained when the chunk appended last began exceeded the
\* chunk size.
RemainderExceeded ==
    pg.at = "loop" /\ Len(pg.content) - pg.start > pg.chunk_size

\* C14: when the text that remains exceeds the chunk size, the chunk ends
\* just after the nearest preceding blank line if one lies past the midpoint
\* of the chunk; otherwise just after the nearest preceding sentence
\* terminator, wherever it lies in the chunk; otherwise at the hard
\* boundary.
C14_BreakAtAnySentenceEnd ==
    RemainderExceeded =>
        IF HoldsPastMidpoint(<<"\n", "\n">>) THEN EndsAfterLast(<<"\n", "\n">>)
        ELSE IF HoldsAnywhere(<<".", " ">>) THEN EndsAfterLast(<<".", " ">>)
        ELSE pg.end = pg.start + pg.chunk_size

\* C14, amended: the sentence terminator is taken only if it too lies past
\* the midpoint of the chunk; a terminator in the first half leaves the
\* chunk to end at the hard boundary.
C14_BreakPastMidpoint ==
    RemainderExceeded =>
        IF HoldsPastMidpoint(<<"\n", "\n">>)
        THEN pg.rule = "paragraph" /\ EndsAfterLast(<<"\n", "\n">>)
        ELSE IF HoldsPastMidpoint(<<".", " ">>)
        THEN pg.rule = "sentence" /\ EndsAfterLast(<<".", " ">>)
        ELSE pg.rule = "hard" /\ pg.end = pg.start + pg.chunk_size

\* A chunk has ended at the hard boundary although a sentence terminator
\* stands in its first half.
C14_Witness ==
    /\ RemainderExceeded
    /\ pg.rule = "hard"
    /\ HoldsAnywhere(<<".", " ">>)
    /\ ~HoldsPastMidpoint(<<".", " ">>)
    /\ pg.end = pg.start + pg.chunk_size

\* The place of the content of message i in the prompt, 0 when it is not
\* there.
PlaceOf(i) ==
    IF \E k \in 1..Len(fmt.prompt) : fmt.prompt[k] = fmt.messages[i].content
    THEN CHOOSE k \in 1..Len(fmt.prompt) :
             fmt.prompt[k] = fmt.messages[i].content
    ELSE 0

\* The piece of the prompt just before, just after, the content of message i.
PieceBefore(i) == IF PlaceOf(i) > 1 THEN fmt.prompt[PlaceOf(i) - 1] ELSE "none"
PieceAfter(i) ==
    IF PlaceOf(i) > 0 /\ PlaceOf(i) < Len(fmt.prompt)
    THEN fmt.prompt[PlaceOf(i) + 1] ELSE "none"

\* C15: in the prompt of _format_generate_payload a user message that
\* follows an assistant message opens a new instruction block, its content
\* coming just after the marker '<s>[INST]', and a message that follows a
\* message of the same role comes without that marker.
C15_NewBlockAfterAssistantTurn ==
    fmt.at = "returned" =>
        \A i \in 2..Len(fmt.messages) :
            /\ (fmt.messages[i].role = "user"
                   /\ fmt.messages[i - 1].role = "assistant")
                   => PieceBefore(i) = "<s>[INST] "
            /\ (fmt.messages[i].role = fmt.messages[i - 1].role
                   /\ PlaceOf(i) > 0)
                   => PieceBefore(i) # "<s>[INST] "

\* The conversation is a system message followed by a user message.
SystemThenUser ==
    /\ Len(fmt.messages) = 2
    /\ fmt.messages[1].role = "system"
    /\ fmt.messages[2].role = "user"

\* C16: for a system message S followed by a user message U the prompt
\* holds S before U and ends with the closing marker '[/INST]' of the user
\* turn.
C16_SystemThenUserPrompt ==
    (fmt.at = "returned" /\ SystemThenUser) =>
        /\ PlaceOf(1) > 0
        /\ PlaceOf(1) < PlaceOf(2)
        /\ PlaceOf(2) = Len(fmt.prompt) - 1
        /\ fmt.prompt[Len(fmt.prompt)] = " [/INST]"
        /\ fmt.prompt = <<"<s>[INST] <<SYS>>\n", fmt.messages[1].content,
                          "\n<</SYS>>\n\n", fmt.messages[2].content,
                          " [/INST]">>

\* The prompt of a system message and a user message has been built.
C16_Witness ==
    /\ fmt.at = "returned"
    /\ SystemThenUser
    /\ Len(fmt.prompt) = 5
    /\ PlaceOf(1) = 2 /\ PlaceOf(2) = 4

\* The content of message i stands in the prompt between the markers of its
\* role.
WrappedAsItsRole(i) ==
    /\ PlaceOf(i) > 0
    /\ fmt.messages[i].role = "system" =>
           /\ PieceBefore(i) = "<s>[INST] <<SYS>>\n"
           /\ PieceAfter(i) = "\n<</SYS>>\n\n"
    /\ fmt.messages[i].role = "user" => PieceAfter(i) = " [/INST]"
    /\ fmt.messages[i].role = "assistant" => PieceAfter(i) = " </s>"

\* C17: for every list of messages with roles in {system, user, assistant}
\* the prompt holds the content of every message, between the markers of its
\* role, in the order of the messages.
C17_EveryMessageInPrompt ==
    fmt.at = "returned" =>
        /\ \A i \in 1..Len(fmt.messages) : WrappedAsItsRole(i)
        /\ \A i, j \in 1..Len(fmt.messages) : i < j => PlaceOf(i) < PlaceOf(j)

\* Message i is one the prompt keeps: any but a system message that is not
\* the first message.
Kept(i) == fmt.messages[i].role # "system" \/ i = 1

\* C17, amended: the prompt holds the content of every message except the
\* system messages that are not first, which are left out; each content
\* stands between the markers of its role, in the order of the messages.
C17_EveryKeptMessageInPrompt ==
    fmt.at = "returned" =>
        /\ \A i \in 1..Len(fmt.messages) :
               IF Kept(i) THEN WrappedAsItsRole(i) ELSE PlaceOf(i) = 0
        /\ \A i, j \in 1..Len(fmt.messages) :
               (i < j /\ Kept(i) /\ Kept(j)) => PlaceOf(i) < PlaceOf(j)

\* A prompt that leaves out a system message and keeps three messages.
C17_Witness ==
    /\ fmt.at = "returned"
    /\ Len(fmt.messages) = 4
    /\ \E i \in 2..4 : ~Kept(i) /\ PlaceOf(i) = 0
    /\ \E i \in 2..4 : fmt.messages[i].role = "assistant" /\ WrappedAsItsRole(i)
    /\ Kept(1) /\ WrappedAsItsRole(1)

\* The messages but the assistant messages whose content is empty or blank.
WithoutEmptyAssistant(messages) ==
    SelectSeq(messages,
              LAMBDA msg : ~(msg.role = "assistant" /\ msg.content \in {"", " "}))

\* C18: the messages chat_completion sends upstream are the input messages
\* but the assistant messages whose content is empty or blank, in their
\* order; when none remains it sends no request to a completion endpoint
\* and hands its caller a response whose content is the empty string.
C18_SendsFilteredMessages ==
    \A t \in Threads :
        (call[t].op = "chat_completion" /\ call[t].via = "direct") =>
            /\ reqs[t].chat + reqs[t].gen > 0 =>
                   /\ reqs[t].messages = WithoutEmptyAssistant(call[t].messages)
                   /\ reqs[t].messages # <<>>
            /\ (WithoutEmptyAssistant(call[t].messages) = <<>>
                    /\ pc[t] = "done" /\ out[t].ret = "return") =>
                   /\ reqs[t].head + reqs[t].chat + reqs[t].gen = 0
                   /\ HandedToCaller(out[t].val).kind = "dict"
                   /\ HandedToCaller(out[t].val).value.content = Str("")

\* The server could not be reached, or did not answer in time, when the
\* call of caller t verified the connection or sent its POST.
Unreachable(t) ==
    \/ out[t].verify_answer \in {"neterr", "timeout"}
    \/ out[t].chat_answer \in {"neterr", "timeout"}
    \/ out[t].gen_answer \in {"neterr", "timeout"}

\* C19: when the upstream server cannot be reached (connection refused, DNS
\* failure, timeout) a completion call does not end in an error: it gives a
\* response whose content is a synthetic notice.
C19_UnreachableGivesNotice ==
    \A t \in Threads :
        (call[t].op = "chat_completion" /\ pc[t] = "done" /\ Unreachable(t)) =>
            /\ out[t].ret = "return"
            /\ HasStringContent(out[t].val)
            /\ out[t].val.content \in
                   {Str(ChatTimeoutNotice), Str(GenerateTimeoutNotice)}

\* The body lacks model or messages, its model name does not match the
\* allowed pattern, or one of its messages is no object with role and
\* content, or has a role outside {system, user, assistant}.
Rejectable(body) ==
    \/ "model" \notin DOMAIN body
    \/ "messages" \notin DOMAIN body
    \/ body.model.t # "str"
    \/ \E i \in 1..Len(body.model.v) : body.model.v[i] \notin NameChars
    \/ \E i \in 1..Len(body.messages.v) :
           LET msg == body.messages.v[i]
           IN \/ ~ {"role", "content"} \subseteq DOMAIN msg
              \/ msg.role \notin {"system", "user", "assistant"}

\* C20: a chat request that lacks model or messages, whose model name does
\* not match the allowed pattern, or that holds a message that is no object
\* with role and content or whose role is outside {system, user, assistant},
\* is answered with status 400 and causes no request to the upstream server.
C20_InvalidRequestAnswered400 ==
    \A t \in Threads :
        (call[t].via = "handler" /\ Rejectable(call[t].request)) =>
            /\ pc[t] = "responded"
            /\ http[t].status = 400
            /\ reqs[t] = NoReqs


(***************************************************************************)
(* C21.  Every request to the handlers of models, chat, embeddings and     *)
(* cell context ends with exactly one finished response, whose status is   *)
(* 200, 400 or 500: self.finish is never called twice for a request, it    *)
(* has been called once when the handler is through, and no exception,     *)
(* of the upstream call or of the handler's own code, leaves the handler.  *)
(***************************************************************************)
HandlerVias ==
    {"handler", "models_handler", "embeddings_handler", "cell_handler"}

C21_OneFinishedResponse ==
    \A t \in Threads :
        call[t].via \in HandlerVias =>
            /\ http[t].finished <= 1
            /\ ~http[t].escaped
            /\ http[t].finished = 1 <=> pc[t] = "responded"
            /\ pc[t] = "responded" => http[t].status \in {200, 400, 500}

\* A streaming chat request whose upstream call raised has been answered,
\* once, with status 500.
C21_Witness ==
    /\ pc[EventLoop] = "responded"
    /\ call[EventLoop].via = "handler"
    /\ call[EventLoop].stream
    /\ out[EventLoop].ret = "raise"
    /\ http[EventLoop].finished = 1
    /\ http[EventLoop].status = 500


(***************************************************************************)
(* C22.  Whatever the number of concurrent callers of _verify_connection   *)
(* on one client, at most one of them at a time is between sending GET     *)
(* /api/version and reading the answer of GET /api/tags, and it holds the  *)
(* lock; once a verification has succeeded, every call that enters         *)
(* _verify_connection leaves it with true and has sent no request.         *)
(***************************************************************************)
Verifying(t) == pc[t] \in {"vc_version", "vc_tags"}

C22_VerificationSerialized ==
    /\ [](\A t, u \in Threads :
              /\ Verifying(t) => lock = t /\ ~connection_verified
              /\ (Verifying(t) /\ Verifying(u)) => t = u)
    /\ [][\A t \in Threads :
              (connection_verified /\ pc[t] = "cc_verify" /\ pc'[t] # "cc_verify")
                  => /\ pc'[t] = "cc_check"
                     /\ reqs'[t] = reqs[t]
                     /\ connection_verified']_vars

\* One thread's verification has succeeded and the other thread, which
\* called meanwhile, is past _verify_connection without any request sent.
C22_Witness ==
    /\ out[1].verify_answer = "200"
    /\ pc[1] = "cc_check"
    /\ pc[2] = "cc_check"
    /\ reqs[2].version = 0
    /\ reqs[2].tags = 0


(***************************************************************************)
(* C23.  Every outbound HTTP call made for a request handler is sent from  *)
(* a worker of the executor, never from the thread of the event loop: a    *)
(* handler's call that has sent a request runs on the executor.            *)
(***************************************************************************)
RequestsSent(t) ==
    reqs[t].head + reqs[t].chat + reqs[t].gen + reqs[t].tags
        + reqs[t].version + reqs[t].embeddings

C23_OutboundCallsOnWorkerPool ==
    \A t \in Threads :
        (call[t].via \in HandlerVias /\ RequestsSent(t) > 0) =>
            call[t].runs_on = "executor"


(***************************************************************************)
(* C24.  When several threads make the first capability check of one       *)
(* client concurrently, at most two HEAD probes of /api/chat are sent: the *)
(* first and one duplicate.                                                *)
(***************************************************************************)
RECURSIVE SumOver(_, _)
SumOver(f, S) ==
    IF S = {} THEN 0
    ELSE LET t == CHOOSE x \in S : TRUE IN f[t] + SumOver(f, S \ {t})

ProbesSent == SumOver([t \in Threads |-> reqs[t].head], Threads)

C24_AtMostOneDuplicateProbe == ProbesSent <= 2

(***************************************************************************)
(* C25.  When several threads call list_models concurrently on a client    *)
(* whose model cache has expired, at most two of them fetch /api/tags: the *)
(* first and one redundant refetch.                                        *)
(***************************************************************************)
Fetching(t) == call[t].op = "list_models" /\ reqs[t].tags > 0

C25_AtMostOneRedundantFetch ==
    Cardinality({ t \in Threads : Fetching(t) }) <= 2


(***************************************************************************)
(* C26.  For every text and every chunk size the configuration can supply, *)
(* each turn of the loop of paginate_response appends a chunk that is not  *)
(* empty and moves the position forward by at least one character, so the  *)
(* loop ends.                                                              *)
(***************************************************************************)
C26_EveryTurnAdvances ==
    [][(pg.at \in {"entry", "loop"} /\ pg'.at = "loop") =>
           /\ pg'.current_pos >= pg.current_pos + 1
           /\ pg'.chunks[Len(pg'.chunks)] # <<>>]_vars


(***************************************************************************)
(* C27.  In every prompt _format_generate_payload returns, each closing    *)
(* marker "[/INST]" closes an opening marker "[INST]" that stands earlier  *)
(* in the prompt and is not yet closed: before every closing marker there  *)
(* are more opening markers than closing ones.                             *)
(***************************************************************************)
OpensInst(piece) == piece \in {"<s>[INST] <<SYS>>\n", "<s>[INST] "}
ClosesInst(piece) == piece = " [/INST]"

OpenBefore(k) ==
    Cardinality({ j \in 1..(k - 1) : OpensInst(fmt.prompt[j]) })
        - Cardinality({ j \in 1..(k - 1) : ClosesInst(fmt.prompt[j]) })

C27_InstructionMarkersBalanced ==
    fmt.at = "returned" =>
        \A k \in 1..Len(fmt.prompt) :
            ClosesInst(fmt.prompt[k]) => OpenBefore(k) >= 1


(***************************************************************************)
(* C28.  A call of list_models that fails after its retries are exhausted  *)
(* leaves _models_cache and _models_cache_time as they were before the     *)
(* call: no step of the call but the one that returns the fetched models   *)
(* (or raises on a fetched body that is no object) changes either of them. *)
(***************************************************************************)
StepOfFailingListModels(t) ==
    /\ call'[t].op = "list_models"
    /\ pc'[t] # pc[t]
    /\ ~(pc'[t] = "done" /\ out'[t].exc # "RequestException")

C28_FailedListModelsKeepsCache ==
    [][\A t \in Threads :
           StepOfFailingListModels(t) =>
               /\ models_cache' = models_cache
               /\ models_cache_time' = models_cache_time]_vars

\* Three attempts have failed, the call has raised, and the cache is the
\* empty one of the constructor, with its timestamp.
C28_Witness ==
    /\ call[EventLoop].op = "list_models"
    /\ pc[EventLoop] = "done"
    /\ out[EventLoop].exc = "RequestException"
    /\ reqs[EventLoop].tags = max_retries
    /\ models_cache = NoCache
    /\ models_cache_time = 0


(***************************************************************************)
(* C29.  _load_jupyter_server_extension registers the handlers only after  *)
(* the configuration was found enabled and an OllamaClient was built; when *)
(* the extension is disabled it builds no client and registers nothing,    *)
(* when the client or the setup of the handlers fails it registers         *)
(* nothing, and in no case does an exception leave the function.           *)
(***************************************************************************)
C29_RegistersOnlyWhenEnabledWithClient ==
    /\ [](ext.at # "none" =>
             /\ ext.registered => (ext.config /\ ext.enabled /\ ext.client)
             /\ ~ext.raised
             /\ ~ext.enabled => (~ext.client /\ ~ext.settings /\ ext.head = "none")
             /\ ext.failed # "none" => (ext.at = "returned" /\ ~ext.registered)
             /\ ext.failed = "client" => (~ext.client /\ ~ext.settings))
    /\ [][ext.at = "returned" => ext' = ext]_vars

\* The handlers are registered, for an enabled extension whose connection
\* test failed and whose client is built.
C29_Witness ==
    /\ ext.at = "returned"
    /\ ext.registered
    /\ ext.enabled
    /\ ext.client
    /\ ext.head = "neterr"


(***************************************************************************)
(* C30.  In the chat handler, in the cell-context handler and in the       *)
(* client, the timeout chosen for a content classified as data science is  *)
(* never shorter than the timeout the same place chooses for a content     *)
(* not classified as data science.                                         *)
(***************************************************************************)
C30_DataScienceTimeoutNotShorter ==
    (tsel.at = "chosen" /\ tsel.is_data_science) =>
        tsel.timeout >= ChosenTimeout(tsel.where, FALSE)

=============================================================================
